---- MODULE Spec2Model ----
(***************************************************************************)
(* Model of the qwc-data-service core: the filter expression parser of     *)
(* DatasetFeaturesProvider (parse_filter), the feature validator           *)
(* (validate) and the CRUD orchestration of DataService over one dataset   *)
(* table and one attachment store.                                         *)
(***************************************************************************)
EXTENDS Integers, Sequences, FiniteSets, TLC

VARIABLES
    config,         \* the dataset configuration the provider is built from
    filterexpr,     \* the filter expression handed to parse_filter
    filterResult,   \* what parse_filter returned for it (NoResult before the call)
    valInput,       \* validate's arguments as the caller passed them first
    valFeature,     \* the feature object validate is called on
    valResults,     \* what the calls of validate so far returned and left
    table,          \* the dataset table: primary key -> row
    sequence,       \* the next value of the serial primary key
    store,          \* the slugs of the attachment files on disk
    slugs,          \* the number of slugs the attachments service has drawn
    req,            \* the last request DataService handled
    resp,           \* what it returned for it
    log,            \* the effects of the handler, in the order they happened
    destroyed       \* the primary keys a destroy has reported deleted

filterVars == <<filterexpr, filterResult>>

validateVars == <<valInput, valFeature, valResults>>

serviceVars == <<table, sequence, store, slugs, req, resp, log, destroyed>>

vars == <<config, filterexpr, filterResult, valInput, valFeature, valResults,
          table, sequence, store, slugs, req, resp, log, destroyed>>

----------------------------------------------------------------------------
(* JSON values, as flask.json.loads produces them.  Every value is a record *)
(* of the same shape: k is the Python type, s the text of a scalar, items   *)
(* the elements of a list.                                                  *)

JStr(s) == [k |-> "str", s |-> s, items |-> <<>>]
JInt(s) == [k |-> "int", s |-> s, items |-> <<>>]
JFloat(s) == [k |-> "float", s |-> s, items |-> <<>>]
JBool(s) == [k |-> "bool", s |-> s, items |-> <<>>]
JNull == [k |-> "NoneType", s |-> "", items |-> <<>>]
JDict == [k |-> "dict", s |-> "", items |-> <<>>]
JList(items) == [k |-> "list", s |-> "", items |-> items]

----------------------------------------------------------------------------
(* DatasetFeaturesProvider.__init__: values assigned from the config.       *)

primary_key == config.primary_key

attributes == config.attributes

fields == config.fields

geometry_column == config.geometry_column

geometry_type == config.geometry_type

srid == config.srid

allow_null_geometry == config.allow_null_geometry

AttributeSet == {attributes[n] : n \in 1..Len(attributes)}

\* absent value of an optional setting
None == "None"

\* a numeric constraint: absent, a number, or a number written as a string
NoNum == [k |-> "NoneType", n |-> 0]

IntNum(n) == [k |-> "int", n |-> n]

StrNum(n) == [k |-> "str", n |-> n]

\* the constraints of a field without constraints
NoConstraints ==
    [readOnly |-> FALSE, required |-> FALSE, hidden |-> FALSE,
     maxlength |-> NoNum, min |-> NoNum, max |-> NoNum,
     values |-> <<>>, allowMulti |-> FALSE]

Field(data_type, constraints, joinfield) ==
    [data_type |-> data_type, constraints |-> constraints, joinfield |-> joinfield]

\* the dataset of the service: polygons with a name, a number, an attachment
\* and the label of the name, which is joined from the table "kinds"
DemoConfig ==
    [primary_key |-> "id",
     attributes |-> <<"id", "name", "num", "doc", "label">>,
     fields |->
        [id |-> Field("integer", NoConstraints, None),
         name |-> Field("text", [NoConstraints EXCEPT !.required = TRUE, !.maxlength = IntNum(3)], None),
         num |-> Field("integer", [NoConstraints EXCEPT !.min = IntNum(0), !.max = IntNum(9)], None),
         doc |-> Field("text", NoConstraints, None),
         label |-> Field("text", NoConstraints, "kinds")],
     geometry_column |-> "geom",
     geometry_type |-> "POLYGON",
     srid |-> "2056",
     allow_null_geometry |-> FALSE]

----------------------------------------------------------------------------
(* GeoJSON features as the service receives them.                           *)

\* feature['geometry']: k is "absent" when the key is missing, else the
\* Python type of the value; type and coordinates are "absent", or the type
\* name and "list"/"other"; shape names the geometry the coordinates describe
Geometry(k, type, coordinates, shape) ==
    [k |-> k, type |-> type, coordinates |-> coordinates, shape |-> shape]

NoGeometry == Geometry("absent", "absent", "absent", "none")

NullGeometry == Geometry("NoneType", "absent", "absent", "none")

\* feature['crs']: k as for the geometry, type the value of crs['type'],
\* properties "absent", "dict" or "other", name the value of the name
Crs(k, type, properties, name) ==
    [k |-> k, type |-> type, properties |-> properties, name |-> name]

NoCrs == Crs("absent", "", "absent", "")

NameCrs(name) == Crs("dict", "name", "dict", name)

\* feature['properties']: k as above, map the attribute values of a dict
Properties(k, map) == [k |-> k, map |-> map]

Feature(type, properties, geometry, crs) ==
    [type |-> type, properties |-> properties, geometry |-> geometry, crs |-> crs]

\* every property name of the model, in the order loops visit them
PropNames == <<"id", "name", "num", "doc", "label", "pw">>

\* the elements of the sequence names that are in the set S, in order
RECURSIVE Select(_, _)
Select(names, S) ==
    IF names = <<>> THEN <<>>
    ELSE (IF Head(names) \in S THEN <<Head(names)>> ELSE <<>>) \o Select(Tail(names), S)

Error(msg, arg) == [msg |-> msg, arg |-> arg]

\* re.match(r'^urn:ogc:def:crs:EPSG::\d{1,6}$', name)
IsEpsgUrn(name) ==
    name \in {"urn:ogc:def:crs:EPSG::2056", "urn:ogc:def:crs:EPSG::4326"}

\* int(name.split(':')[-1]), 4326 for CRS84
SridOfUrn(name) ==
    CASE name = "urn:ogc:def:crs:EPSG::2056" -> "2056"
      [] name = "urn:ogc:def:crs:EPSG::4326" -> "4326"
      [] name = "urn:ogc:def:crs:OGC:1.3:CRS84" -> "4326"
      [] OTHER -> None

geo_json_geometry_types ==
    {"Point", "MultiPoint", "LineString", "MultiLineString",
     "Polygon", "MultiPolygon", "GeometryCollection"}

----------------------------------------------------------------------------
(* DatasetFeaturesProvider.validate_geo_json                                *)

GeometryStructureErrors(feature, new_feature) ==
    LET geometry == feature.geometry
    IN  IF geometry_column = None THEN <<>>
        ELSE IF geometry.k = "absent"
        THEN IF new_feature /\ ~allow_null_geometry
             THEN <<Error("validation.missing_geojson_geom", "")>> ELSE <<>>
        ELSE IF geometry.k = "NoneType"
        THEN IF ~allow_null_geometry
             THEN <<Error("validation.geom_not_null", "")>> ELSE <<>>
        ELSE IF geometry.k # "dict"
        THEN <<Error("validation.invalid_geojson_geom", "")>>
        ELSE (IF geometry.type = "absent"
              THEN <<Error("validation.missing_geojson_geom_type", "")>>
              ELSE IF geometry.type \notin geo_json_geometry_types
              THEN <<Error("validation.invalid_geojson_geom_type", "")>>
              ELSE <<>>)
             \o
             (IF geometry.coordinates = "absent"
              THEN <<Error("validation.missing_geojson_geom_coo", "")>>
              ELSE IF geometry.coordinates # "list"
              THEN <<Error("validation.invalid_geojson_geom_coo", "")>>
              ELSE <<>>)

crs_required(feature, new_feature) ==
    LET geometry == feature.geometry
    IN  IF geometry_column = None THEN FALSE
        ELSE IF geometry.k = "absent" THEN new_feature /\ ~allow_null_geometry
        ELSE IF geometry.k = "NoneType" THEN ~allow_null_geometry
        ELSE TRUE

RECURSIVE AttributeErrors(_, _)
AttributeErrors(names, map) ==
    IF names = <<>> THEN <<>>
    ELSE LET attr == Head(names)
             value == map[attr]
             data_type == IF attr \in DOMAIN fields THEN fields[attr].data_type ELSE None
         IN  (IF attr \notin AttributeSet
              THEN <<Error("validation.feature_prop_cannot_be_set", attr)>>
              ELSE IF /\ value.k # "NoneType"
                      /\ data_type \notin {"json", "jsonb"}
                      /\ value.k \notin {"str", "int", "float", "bool"}
              THEN <<Error("validation.invalid_type_for_prop", attr)>>
              ELSE <<>>)
             \o AttributeErrors(Tail(names), map)

PropertiesErrors(feature) ==
    IF feature.properties.k = "absent"
    THEN <<Error("validation.missing_geojson_props", "")>>
    ELSE IF feature.properties.k # "dict"
    THEN <<Error("validation.invalid_geojson_props", "")>>
    ELSE AttributeErrors(Select(PropNames, DOMAIN feature.properties.map),
                         feature.properties.map)

CrsErrors(feature, new_feature) ==
    LET crs == feature.crs
    IN  IF geometry_column = None THEN <<>>
        ELSE IF crs.k = "absent"
        THEN IF crs_required(feature, new_feature)
             THEN <<Error("validation.missing_geojson_crs", "")>> ELSE <<>>
        ELSE IF crs.k # "dict"
        THEN <<Error("validation.invalid_geojson_crs", "")>>
        ELSE (IF crs.type # "name"
              THEN <<Error("validation.geojson_crs_must_be_type_name", "")>> ELSE <<>>)
             \o
             (IF crs.properties = "absent"
              THEN <<Error("validation.missing_geojson_crs_props", "")>>
              ELSE IF crs.properties # "dict"
              THEN <<Error("validation.invalid_geojson_crs_props", "")>>
              ELSE IF ~IsEpsgUrn(crs.name)
              THEN <<Error("validation.geojson_crs_is_not_ogc_urn", "")>>
              ELSE <<>>)

validate_geo_json(feature, new_feature) ==
    (IF feature.type # "Feature"
     THEN <<Error("validation.geojson_must_be_feature", "")>> ELSE <<>>)
    \o GeometryStructureErrors(feature, new_feature)
    \o PropertiesErrors(feature)
    \o CrsErrors(feature, new_feature)

----------------------------------------------------------------------------
(* DatasetFeaturesProvider.validate_geometry                                *)

\* what the database reports for the geometry a shape names: whether
\* ST_GeomFromGeoJSON parses it, ST_IsValidDetail, ST_IsEmpty, whether the WKT
\* repeats a vertex, GeometryType, and whether the first coordinate has a Z
DbGeometry(parses, valid, is_empty, repeated, geom_type, z) ==
    [parses |-> parses, valid |-> valid, is_empty |-> is_empty,
     repeated |-> repeated, geom_type |-> geom_type, z |-> z]

GeometryOfShape(shape) ==
    CASE shape = "square" -> DbGeometry(TRUE, TRUE, FALSE, FALSE, "POLYGON", FALSE)
      [] shape = "bowtie" -> DbGeometry(TRUE, FALSE, FALSE, FALSE, "POLYGON", FALSE)
      [] shape = "hollow" -> DbGeometry(TRUE, TRUE, TRUE, FALSE, "POLYGON", FALSE)
      [] shape = "stutter" -> DbGeometry(TRUE, TRUE, FALSE, TRUE, "POLYGON", FALSE)
      [] shape = "dot" -> DbGeometry(TRUE, TRUE, FALSE, FALSE, "POINT", FALSE)
      [] shape = "cube" -> DbGeometry(TRUE, TRUE, FALSE, FALSE, "POLYGON", TRUE)
      [] OTHER -> DbGeometry(FALSE, FALSE, FALSE, FALSE, "", FALSE)

validate_geometry(feature) ==
    IF geometry_column = None THEN <<>>
    ELSE IF feature.geometry.k \in {"absent", "NoneType"} THEN <<>>
    ELSE
    LET g == GeometryOfShape(feature.geometry.shape)
        geom_type == IF g.z THEN g.geom_type \o "Z" ELSE g.geom_type
    IN  IF ~g.parses
        THEN <<Error("reason", "Too few ordinates in GeoJSON")>>
        ELSE IF ~g.valid
        THEN <<Error("reason", "Self-intersection")>>
        ELSE IF g.is_empty
        THEN <<Error("reason", "validation.empty_or_incomplete_geom")>>
        ELSE IF g.repeated
        THEN <<Error("reason", "validation.duplicate_point")>>
        ELSE IF geometry_type # "Geometry" /\ geom_type # geometry_type
        THEN <<Error("reason", "validation.invalid_geom_type")>>
        ELSE <<>>

----------------------------------------------------------------------------
(* DatasetFeaturesProvider.validate_fields                                  *)

\* int(s) of the numerals of the model
IsNumeral(s) == s \in {"-1", "0", "1", "2", "3", "5", "7", "12"}

IntOf(s) ==
    CASE s = "-1" -> 0 - 1
      [] s = "0" -> 0
      [] s = "1" -> 1
      [] s = "2" -> 2
      [] s = "3" -> 3
      [] s = "5" -> 5
      [] s = "7" -> 7
      [] s = "12" -> 12
      [] OTHER -> 0

\* len(s) of the strings of the model
StrLen(s) ==
    CASE s = "" -> 0
      [] s \in {"a", "b", "0", "1", "2", "3", "5", "7"} -> 1
      [] s \in {"-1", "12", "ab"} -> 2
      [] s \in {"abcd", "True", "true"} -> 4
      [] s \in {"False", "false"} -> 5
      [] OTHER -> 15

\* the Python value a successful cast returns, or the failure of the cast
CastOk(k, s) == [ok |-> TRUE, k |-> k, s |-> s]

CastFailed == [ok |-> FALSE, k |-> "NoneType", s |-> ""]

\* SELECT (:value)::<data_type>, the value read back (s is str(value))
Cast(input_value, data_type) ==
    IF data_type \notin {"text", "integer", "bigint", "boolean", "json", "jsonb"}
    THEN CastFailed
    ELSE IF input_value.k = "NoneType"
    THEN CastOk("NoneType", "")
    ELSE IF data_type = "text"
    THEN CASE input_value.k \in {"str", "int"} -> CastOk("str", input_value.s)
           [] input_value.k = "bool" -> CastOk("str", input_value.s)
           [] OTHER -> CastFailed
    ELSE IF data_type \in {"integer", "bigint"}
    THEN CASE input_value.k = "int" -> CastOk("int", input_value.s)
           [] input_value.k = "str" /\ IsNumeral(input_value.s) -> CastOk("int", input_value.s)
           [] input_value.k = "bool" ->
                CastOk("int", IF input_value.s = "true" THEN "1" ELSE "0")
           [] OTHER -> CastFailed
    ELSE IF data_type = "boolean"
    THEN CASE input_value.k = "bool" ->
                CastOk("bool", IF input_value.s = "true" THEN "True" ELSE "False")
           [] input_value.k = "int" ->
                CastOk("bool", IF input_value.s = "0" THEN "False" ELSE "True")
           [] input_value.k = "str" /\ input_value.s \in {"true", "false"} ->
                CastOk("bool", IF input_value.s = "true" THEN "True" ELSE "False")
           [] OTHER -> CastFailed
    ELSE CastOk("dict", input_value.s)

\* bool(value) of a cast value
Truthy(value) ==
    /\ value.k # "NoneType"
    /\ ~(value.k = "str" /\ value.s = "")
    /\ ~(value.k = "int" /\ value.s = "0")
    /\ ~(value.k = "bool" /\ value.s = "False")

\* float(value) is defined
HasFloat(value) == value.k \in {"int", "bool"} \/ (value.k = "str" /\ IsNumeral(value.s))

FloatOf(value) ==
    IF value.k = "bool" THEN (IF value.s = "True" THEN 1 ELSE 0) ELSE IntOf(value.s)

\* ast.literal_eval(value) of a stored collection, <<>> when it has none
MultiValues(value) ==
    CASE value.s = "['a']" -> <<"a">>
      [] value.s = "['a', 'x']" -> <<"a", "x">>
      [] OTHER -> <<>>

SeqToSet(q) == {q[n] : n \in 1..Len(q)}

\* the errors of the `values` constraint for a cast value
ValuesErrors(attr, constraints, value) ==
    IF constraints.values # <<>> /\ Truthy(value)
    THEN IF constraints.allowMulti
         THEN IF MultiValues(value) = <<>>
              THEN <<Error("validation.invalid_value_for", attr)>>
              ELSE [n \in 1..Cardinality({m \in 1..Len(MultiValues(value)) :
                                            MultiValues(value)[m] \notin SeqToSet(constraints.values)})
                        |-> Error("validation.invalid_value_for", attr)]
         ELSE IF value.s \notin SeqToSet(constraints.values)
              THEN <<Error("validation.invalid_value_for", attr)>>
              ELSE <<>>
    ELSE <<>>

\* int(constraints['min']) of a bigint field
IntConstraint(c) == IF c.k = "str" THEN IntNum(c.n) ELSE c

\* the state of the loop over the properties: the errors so far, the field
\* configuration (the loop writes to it) and whether an exception escaped
FieldsState(errors, flds, exc) == [errors |-> errors, fields |-> flds, exc |-> exc]

\* the checks of one property
CheckProperty(attr, input_value, st) ==
    LET known == attr \in DOMAIN st.fields
        data_type == IF known THEN st.fields[attr].data_type ELSE None
        constraints0 == IF known THEN st.fields[attr].constraints ELSE NoConstraints
        constraints == IF data_type = "bigint"
                       THEN [constraints0 EXCEPT !.min = IntConstraint(@),
                                                 !.max = IntConstraint(@)]
                       ELSE constraints0
        flds == IF known THEN [st.fields EXCEPT ![attr].constraints = constraints]
                ELSE st.fields
        value == Cast(input_value, data_type)
        invalid == <<Error("validation.invalid_value", attr)>>
    IN  IF constraints.readOnly
        THEN FieldsState(st.errors, flds, FALSE)
        ELSE IF ~value.ok
        THEN FieldsState(st.errors \o invalid, flds, FALSE)
        ELSE IF value.k = "NoneType"
        THEN FieldsState(st.errors, flds, FALSE)
        ELSE IF data_type = "boolean" /\ input_value.k = "int"
        THEN FieldsState(st.errors \o invalid, flds, FALSE)
        ELSE IF \/ (constraints.min.k # "NoneType" \/ constraints.max.k # "NoneType")
                   /\ ~HasFloat(value)
                \/ constraints.min.k = "str"
                \/ constraints.max.k = "str"
        THEN \* float(value) or the comparison with a string raises
             FieldsState(st.errors, flds, TRUE)
        ELSE FieldsState(
                st.errors
                \o (IF constraints.maxlength.k # "NoneType"
                       /\ StrLen(value.s) > constraints.maxlength.n
                    THEN <<Error("validation.value_must_be_shorter_than", attr)>> ELSE <<>>)
                \o (IF constraints.min.k # "NoneType" /\ FloatOf(value) < constraints.min.n
                    THEN <<Error("validation.value_must_be_geq_to", attr)>> ELSE <<>>)
                \o (IF constraints.max.k # "NoneType" /\ FloatOf(value) > constraints.max.n
                    THEN <<Error("validation.value_must_be_leq_to", attr)>> ELSE <<>>)
                \o ValuesErrors(attr, constraints, value),
                flds, FALSE)

RECURSIVE CheckProperties(_, _, _)
CheckProperties(names, map, st) ==
    IF names = <<>> \/ st.exc THEN st
    ELSE CheckProperties(Tail(names), map, CheckProperty(Head(names), map[Head(names)], st))

\* bool(feature['properties'].get(attr, None))
HasValue(map, attr) ==
    /\ attr \in DOMAIN map
    /\ map[attr].k # "NoneType"
    /\ ~(map[attr].k = "str" /\ map[attr].s = "")
    /\ ~(map[attr].k = "int" /\ map[attr].s = "0")
    /\ ~(map[attr].k = "bool" /\ map[attr].s = "false")
    /\ ~(map[attr].k = "list" /\ map[attr].items = <<>>)

\* the field is removed from the feature by the second loop
Stripped(flds, map, attr) ==
    \/ flds[attr].constraints.readOnly
    \/ flds[attr].constraints.hidden /\ ~HasValue(map, attr)

\* the second loop: the properties that stay
StripProperties(flds, map) ==
    [attr \in {a \in DOMAIN map : ~(a \in DOMAIN flds /\ Stripped(flds, map, a))} |-> map[attr]]

RECURSIVE RequiredErrors(_, _, _)
RequiredErrors(names, flds, map) ==
    IF names = <<>> THEN <<>>
    ELSE LET attr == Head(names)
         IN  (IF Stripped(flds, map, attr) \/ ~flds[attr].constraints.required
              THEN <<>>
              ELSE IF attr \notin DOMAIN map \/ map[attr].k = "NoneType"
              THEN <<Error("validation.missing_required_value_for", attr)>>
              ELSE IF map[attr].k = "str" /\ map[attr].s = ""
              THEN <<Error("validation.value_for_cannot_be_blank", attr)>>
              ELSE <<>>)
             \o RequiredErrors(Tail(names), flds, map)

\* what validate and validate_fields leave behind: the errors, the feature
\* (its properties are stripped in place), the field configuration and
\* whether an exception escaped
Validated(errors, feature, flds, exc) ==
    [errors |-> errors, feature |-> feature, fields |-> flds, exc |-> exc]

validate_fields(feature) ==
    IF DOMAIN fields = {}
    THEN Validated(<<>>, feature, fields, FALSE)
    ELSE
    LET map == feature.properties.map
        st == CheckProperties(Select(PropNames, DOMAIN map), map,
                              FieldsState(<<>>, fields, FALSE))
    IN  IF st.exc
        THEN Validated(st.errors, feature, st.fields, TRUE)
        ELSE Validated(
                st.errors \o RequiredErrors(Select(PropNames, DOMAIN st.fields), st.fields, map),
                [feature EXCEPT !.properties.map = StripProperties(st.fields, map)],
                st.fields, FALSE)

----------------------------------------------------------------------------
(* DatasetFeaturesProvider.validate                                         *)

\* the error map of validate: category |-> list of errors
NoErrors == <<>>

\* every validator runs, whatever the earlier ones reported
validate_all_categories(feature, new_feature) ==
    LET validation_errors == validate_geo_json(feature, new_feature)
        geometry_errors == validate_geometry(feature)
        checked == IF feature.properties.k = "dict"
                   THEN validate_fields(feature)
                   ELSE Validated(<<>>, feature, fields, FALSE)
    IN  Validated(
            (IF validation_errors # <<>>
             THEN "validation_errors" :> validation_errors ELSE NoErrors)
            @@ (IF geometry_errors # <<>>
                THEN "geometry_errors" :> geometry_errors ELSE NoErrors)
            @@ (IF checked.errors # <<>>
                THEN "data_errors" :> checked.errors ELSE NoErrors),
            checked.feature, checked.fields, checked.exc)

validate(feature, new_feature) ==
    LET validation_errors == validate_geo_json(feature, new_feature)
    IN  IF validation_errors # <<>>
        THEN Validated("validation_errors" :> validation_errors, feature, fields, FALSE)
        ELSE
        LET geometry_errors == validate_geometry(feature)
        IN  IF geometry_errors # <<>>
            THEN Validated("geometry_errors" :> geometry_errors, feature, fields, FALSE)
            ELSE
            LET checked == validate_fields(feature)
            IN  Validated(IF checked.errors # <<>>
                          THEN "data_errors" :> checked.errors ELSE NoErrors,
                          checked.feature, checked.fields, checked.exc)

----------------------------------------------------------------------------
(* String conversions of the parser, defined on the strings the model uses. *)

\* str.upper()
upper(s) ==
    CASE s = "and" -> "AND"
      [] s = "or" -> "OR"
      [] s = "xor" -> "XOR"
      [] s = "like" -> "LIKE"
      [] s = "is not" -> "IS NOT"
      [] s = " = " -> " = "
      [] OTHER -> s

\* str.strip()
strip(s) == IF s = " = " THEN "=" ELSE s

\* column_name.startswith("?")
startswith_q(s) == s \in {"?id", "?name", "?pw", "?geheim"}

\* column_name[1:]
tail(s) ==
    CASE s = "?id" -> "id"
      [] s = "?name" -> "name"
      [] s = "?pw" -> "pw"
      [] s = "?geheim" -> "geheim"
      [] OTHER -> s

----------------------------------------------------------------------------
(* DatasetFeaturesProvider.__parse_filter_inner                             *)

CONCAT_OPERATORS == {"AND", "OR"}

OPERATORS == {"=", "!=", "<>", "<", ">", "<=", ">=", "LIKE", "ILIKE", "IS", "IS NOT"}

VALUE_TYPES == {"int", "float", "str", "NoneType", "bool"}

\* A piece of the SQL list.  t is "(", ")", a concatenation keyword or "cmp";
\* a "cmp" piece is the text '"<col>" <op> :v<ph>', and lit is text that is
\* written into the SQL verbatim after it ("" when there is none).
SqlToken(t) == [t |-> t, col |-> "", op |-> "", ph |-> 0, lit |-> ""]

\* '"%s" %s :v%d' % (column_name, op, idx)
LeafSqlInterpolated(column_name, op, idx, value) ==
    [t |-> "cmp", col |-> column_name, op |-> op, ph |-> idx, lit |-> value.s]

LeafSql(column_name, op, idx, value) ==
    [t |-> "cmp", col |-> column_name, op |-> op, ph |-> idx, lit |-> ""]

\* the parser state: the sql, params and errors the calls share (params maps
\* the number N of the key "vN" to the bound value), ret set by a `return` of
\* the running call, exc set when an exception escapes
ParseState == [sql |-> <<>>, params |-> <<>>, errors |-> <<>>, ret |-> FALSE, exc |-> FALSE]

AddError(st, msg) == [st EXCEPT !.errors = Append(@, msg)]

Return(st) == [st EXCEPT !.ret = TRUE]

Raise(st) == [st EXCEPT !.exc = TRUE]

AddSql(st, token) == [st EXCEPT !.sql = Append(@, token)]

\* the permitted-column test of a leaf
ColumnPermitted(column_name) ==
    column_name = primary_key \/ column_name \in AttributeSet

\* the operator rewrite for a NULL value (op is already upper-cased)
NullOperatorBothIs(op) ==
    IF op = "=" THEN "IS" ELSE IF op = "!=" THEN "IS" ELSE op

NullOperator(op) ==
    IF op = "=" THEN "IS" ELSE IF op = "!=" THEN "IS NOT" ELSE op

\* the number of pieces written since the innermost "(" still open: the
\* position of the next piece in its own array
RECURSIVE LevelPosition(_)
LevelPosition(sql) ==
    IF sql = <<>> \/ sql[Len(sql)].t = "(" THEN 0
    ELSE 1 + LevelPosition(SubSeq(sql, 1, Len(sql) - 1))

\* the leaf numbered by its position in its array
ParseLeafRestPositional(entry, column_name, st) ==
    IF entry[2].k # "str"
    THEN Raise(st)        \* entry[1].upper() of a non-string: AttributeError
    ELSE
    LET op == strip(upper(entry[2].s))
        value == entry[3]
    IN  IF op \notin OPERATORS
        THEN Return(AddError(st, "Invalid operator"))
        ELSE IF value.k \notin VALUE_TYPES
        THEN Return(AddError(st, "Invalid value type"))
        ELSE IF value.k # "NoneType" /\ op \in {"IS", "IS NOT"}
        THEN Return(AddError(st, "Invalid operator"))
        ELSE
            LET op2 == IF value.k = "NoneType" THEN NullOperator(op) ELSE op
                idx == LevelPosition(st.sql)
            IN  [st EXCEPT !.sql = Append(@, LeafSql(column_name, op2, idx, value)),
                           !.params = (idx :> value) @@ @]

\* a leaf [column, operator, value] whose column passed the permission test
ParseLeafRest(entry, column_name, st) ==
    IF entry[2].k # "str"
    THEN Raise(st)        \* entry[1].upper() of a non-string: AttributeError
    ELSE
    LET op == strip(upper(entry[2].s))
        value == entry[3]
    IN  IF op \notin OPERATORS
        THEN Return(AddError(st, "Invalid operator"))
        ELSE IF value.k \notin VALUE_TYPES
        THEN Return(AddError(st, "Invalid value type"))
        ELSE IF value.k # "NoneType" /\ op \in {"IS", "IS NOT"}
        THEN Return(AddError(st, "Invalid operator"))
        ELSE
            LET op2 == IF value.k = "NoneType" THEN NullOperator(op) ELSE op
                idx == Cardinality(DOMAIN st.params)
            IN  [st EXCEPT !.sql = Append(@, LeafSql(column_name, op2, idx, value)),
                           !.params = (idx :> value) @@ @]

RECURSIVE parse_filter_inner(_, _), ParseEntries(_, _, _, _)

\* the loop `for entry in filterarray` from the entry at position pos on;
\* i is the loop's own counter
ParseEntries(filterarray, pos, i, st) ==
    IF pos > Len(filterarray) \/ st.ret \/ st.exc
    THEN st
    ELSE
    LET entry == filterarray[pos]
    IN  IF entry.k = "str"
        THEN LET e == upper(entry.s)
             IN  IF e \notin CONCAT_OPERATORS
                 THEN Return(AddError(st, "Invalid concatenation operator"))
                 ELSE IF i % 2 # 1 \/ i = Len(filterarray) - 1
                 THEN Return(AddError(st, "Incorrect concatenation operator position"))
                 ELSE ParseEntries(filterarray, pos + 1, i + 1, AddSql(st, SqlToken(e)))
        ELSE IF entry.k = "list"
        THEN IF Len(entry.items) = 0
             THEN Return(AddError(st, "Empty list in expression"))
             ELSE IF entry.items[1].k = "list"
             THEN \* nested expression
                  LET inner == parse_filter_inner(entry.items, AddSql(st, SqlToken("(")))
                  IN  IF inner.exc
                      THEN inner
                      ELSE ParseEntries(filterarray, pos + 1, i + 1,
                                        AddSql(inner, SqlToken(")")))
             ELSE IF Len(entry.items) # 3
             THEN Return(AddError(st, "Incorrect number of entries"))
             ELSE IF entry.items[1].k # "str"
             THEN Return(AddError(st, "Invalid column name"))
             ELSE
                LET ignore_if_not_exists == startswith_q(entry.items[1].s)
                    column_name == IF ignore_if_not_exists
                                   THEN tail(entry.items[1].s)
                                   ELSE entry.items[1].s
                IN  IF ~ColumnPermitted(column_name)
                    THEN IF ignore_if_not_exists
                         THEN \* `continue`: the counter i is not advanced
                              ParseEntries(filterarray, pos + 1, i, st)
                         ELSE Return(AddError(st, "Column name not found or permission error"))
                    ELSE ParseEntries(filterarray, pos + 1, i + 1,
                                      ParseLeafRest(entry.items, column_name, st))
        ELSE \* invalid entry: the error is recorded and the loop goes on
             ParseEntries(filterarray, pos + 1, i + 1, AddError(st, "Invalid entry"))

parse_filter_inner(filterarray, st) ==
    LET r == ParseEntries(filterarray, 1, 0, [st EXCEPT !.ret = FALSE])
    IN  [r EXCEPT !.ret = FALSE]

----------------------------------------------------------------------------
(* DatasetFeaturesProvider.parse_filter                                     *)

\* the request's filter parameter: src is "empty" (None or ""), "badjson",
\* or "json" with the value it deserializes to
FilterInput(src, json) == [src |-> src, json |-> json]

FilterOk(sql, params) == [status |-> "ok", sql |-> sql, params |-> params, error |-> <<>>]

FilterError(errors) == [status |-> "error", sql |-> <<>>, params |-> <<>>, error |-> errors]

FilterException == [status |-> "exception", sql |-> <<>>, params |-> <<>>, error |-> <<>>]

NoResult == [status |-> "none", sql |-> <<>>, params |-> <<>>, error |-> <<>>]

parse_filter(fe) ==
    IF fe.src = "empty"
    THEN FilterError(<<"Empty expression">>)
    ELSE IF fe.src = "badjson"
    THEN FilterError(<<"Invalid JSON">>)
    ELSE IF fe.json.k # "list"
    THEN FilterError(<<"Not an array">>)
    ELSE IF Len(fe.json.items) = 0
    THEN FilterException          \* filterarray[0] of an empty list: IndexError
    ELSE
    LET filterarray == IF fe.json.items[1].k # "list"
                       THEN <<fe.json>>
                       ELSE fe.json.items
        st == parse_filter_inner(filterarray, ParseState)
    IN  IF st.exc
        THEN FilterException
        ELSE IF st.errors # <<>>
        THEN FilterError(st.errors)
        ELSE IF st.sql = <<>>
        THEN FilterOk(<<>>, <<>>)
        ELSE FilterOk(<<SqlToken("(")>> \o st.sql \o <<SqlToken(")")>>, st.params)

----------------------------------------------------------------------------
(* The dataset rows and the queries of the provider.                       *)

\* a mapping without keys
EmptyMap == [a \in {} |-> JNull]

\* a geometry value in the database: the shape, the SRID it is in and the
\* SRIDs it was transformed from (a transformation is not undone by its
\* inverse)
DbGeom(shape, geom_srid, via) == [shape |-> shape, srid |-> geom_srid, via |-> via]

NullGeom == DbGeom("NULL", None, <<>>)

\* transform_geom_sql applied to a geometry value: ST_Transform unless the
\* SRIDs agree
transform_geom_sql(geom, geom_srid, target_srid) ==
    IF geom_srid = None \/ geom_srid = target_srid
    THEN geom
    ELSE IF geom = NullGeom THEN geom
    ELSE DbGeom(geom.shape, target_srid, Append(geom.via, geom.srid))

\* a row of the dataset rows
Row(name, num, doc, geom) == [name |-> name, num |-> num, doc |-> doc, geom |-> geom]

\* the rows "kinds" that the attribute label is joined from:
\* LEFT JOIN "kinds" ON __J0.name = kinds.name, one row per name
KindLabel(name) ==
    CASE name = JStr("a") -> JStr("Alpha")
      [] OTHER -> JNull

\* the row a query selects: the own columns and the joined ones
QueryRow(id, row) ==
    [id |-> JInt(ToString(id)), name |-> row.name, num |-> row.num, doc |-> row.doc,
     label |-> KindLabel(row.name)]

\* a feature as the provider returns it
OutFeature(id, properties, geometry, crs, bbox) ==
    [type |-> "Feature", id |-> id, properties |-> properties,
     geometry |-> geometry, crs |-> crs, bbox |-> bbox]

NoOutFeature == [type |-> "None", id |-> 0, properties |-> EmptyMap,
                 geometry |-> NullGeom, crs |-> None, bbox |-> NullGeom]

\* geom_column_sql: the _json_geom_ column, and the _bbox_ column, which is
\* the box of the same transformed geometry (NULL without with_bbox)
geom_column_sql(geom, target_srid, with_bbox) ==
    [json_geom |-> transform_geom_sql(geom, srid, target_srid),
     bbox |-> IF with_bbox THEN transform_geom_sql(geom, srid, target_srid) ELSE NullGeom]

\* client_srid or self.srid
SridOr(client_srid) == IF client_srid = None THEN srid ELSE client_srid

\* feature_from_query for the row of id, the geometry columns selected for
\* the SRID query_srid
feature_from_query(id, row, query_srid, client_srid, with_bbox) ==
    LET q == QueryRow(id, row)
        names == {a \in AttributeSet : a # primary_key}
        g == geom_column_sql(row.geom, query_srid, with_bbox)
    IN  IF geometry_column = None
        THEN OutFeature(id, [a \in names |-> q[a]], NullGeom, None, NullGeom)
        ELSE OutFeature(id, [a \in names |-> q[a]], g.json_geom,
                        "urn:ogc:def:crs:EPSG::" \o SridOr(client_srid), g.bbox)

\* DatasetFeaturesProvider.show: the feature, or NoOutFeature when not found
show(rows, id, client_srid) ==
    IF id \in DOMAIN rows
    THEN feature_from_query(id, rows[id], SridOr(client_srid), client_srid, TRUE)
    ELSE NoOutFeature

\* sql_params_for_feature: the columns written, their bound values and the
\* client SRID taken from the feature's CRS
sql_params_for_feature(feature) ==
    LET map == feature.properties.map
        attribute_columns == Select(attributes, DOMAIN map)
        client_srid == IF geometry_column = None THEN None
                       ELSE IF feature.crs.k = "absent" THEN srid
                       ELSE SridOfUrn(feature.crs.name)
    IN  [columns |-> attribute_columns,
         bound_values |-> [a \in SeqToSet(attribute_columns) |-> map[a]],
         with_geometry |-> geometry_column # None /\ feature.geometry.k # "absent",
         geometry |-> IF feature.geometry.k = "dict"
                      THEN transform_geom_sql(
                               DbGeom(feature.geometry.shape, client_srid, <<>>),
                               client_srid, srid)
                      ELSE NullGeom,
         client_srid |-> client_srid]

\* the statement names a column the rows does not have (a joined attribute
\* is not a column of the dataset rows), or no column at all
StatementInvalid(sql_params) ==
    \/ \E a \in SeqToSet(sql_params.columns) : fields[a].joinfield # None
    \/ sql_params.columns = <<>> /\ ~sql_params.with_geometry

\* the row an INSERT or UPDATE writes over the row old
WrittenRow(old, sql_params) ==
    LET v == sql_params.bound_values
    IN  Row(IF "name" \in DOMAIN v THEN v["name"] ELSE old.name,
            IF "num" \in DOMAIN v THEN v["num"] ELSE old.num,
            IF "doc" \in DOMAIN v THEN v["doc"] ELSE old.doc,
            IF sql_params.with_geometry THEN sql_params.geometry ELSE old.geom)

\* the primary key the statement writes: the bound value of the key column,
\* or else the given one (the next value of the nextval, the key of the row)
WrittenId(sql_params, id) ==
    IF primary_key \in DOMAIN sql_params.bound_values
    THEN IntOf(sql_params.bound_values[primary_key].s)
    ELSE id

\* the column defaults of a new row
DefaultRow == Row(JNull, JNull, JNull, NullGeom)

\* the errors the database raises on a statement
DbErrors == {"DataError", "IntegrityError", "InternalError",
             "ProgrammingError", "OperationalError"}

\* the outcome of a provider write: the rows and the nextval after it (the
\* rows unchanged when the transaction was rolled back), the error raised
\* ("" for none) and the feature returned
Written(rows, nextval, error, feature) ==
    [table |-> rows, sequence |-> nextval, error |-> error, feature |-> feature]

\* DatasetFeaturesProvider.create inside db_write.begin(); db is the
\* database's verdict on the statement
create_in_dataset_srid(rows, nextval, feature, db) ==
    LET sql_params == sql_params_for_feature(feature)
        row == WrittenRow(DefaultRow, sql_params)
        new_id == WrittenId(sql_params, nextval)
        drawn == IF primary_key \in DOMAIN sql_params.bound_values
                 THEN nextval ELSE nextval + 1
    IN  IF StatementInvalid(sql_params)
        THEN Written(rows, nextval, "ProgrammingError", NoOutFeature)
        ELSE IF db # "ok"
        THEN Written(rows, nextval, db, NoOutFeature)
        ELSE IF new_id \in DOMAIN rows
        THEN Written(rows, drawn, "IntegrityError", NoOutFeature)
        ELSE Written((new_id :> row) @@ rows, drawn, "",
                     feature_from_query(new_id, row, srid, sql_params.client_srid, TRUE))

create(rows, nextval, feature, db) ==
    LET sql_params == sql_params_for_feature(feature)
        row == WrittenRow(DefaultRow, sql_params)
        new_id == WrittenId(sql_params, nextval)
        drawn == IF primary_key \in DOMAIN sql_params.bound_values
                 THEN nextval ELSE nextval + 1
    IN  IF StatementInvalid(sql_params)
        THEN Written(rows, nextval, "ProgrammingError", NoOutFeature)
        ELSE IF db # "ok"
        THEN Written(rows, nextval, db, NoOutFeature)
        ELSE IF new_id \in DOMAIN rows
        THEN Written(rows, drawn, "IntegrityError", NoOutFeature)
        ELSE Written((new_id :> row) @@ rows, drawn, "",
                     feature_from_query(new_id, row, sql_params.client_srid,
                                        sql_params.client_srid, TRUE))

\* DatasetFeaturesProvider.update inside db_write.begin()
update(rows, nextval, id, feature, db) ==
    LET sql_params == sql_params_for_feature(feature)
        new_id == WrittenId(sql_params, id)
    IN  IF StatementInvalid(sql_params)
        THEN Written(rows, nextval, "ProgrammingError", NoOutFeature)
        ELSE IF db # "ok"
        THEN Written(rows, nextval, db, NoOutFeature)
        ELSE IF id \notin DOMAIN rows
        THEN Written(rows, nextval, "", NoOutFeature)
        ELSE IF new_id # id /\ new_id \in DOMAIN rows
        THEN Written(rows, nextval, "IntegrityError", NoOutFeature)
        ELSE LET row == WrittenRow(rows[id], sql_params)
             IN  Written((new_id :> row) @@ [i \in DOMAIN rows \ {id} |-> rows[i]],
                         nextval, "",
                         feature_from_query(new_id, row, sql_params.client_srid,
                                            sql_params.client_srid, TRUE))

\* DatasetFeaturesProvider.destroy inside db_write.begin(): success is TRUE
\* iff the DELETE returned a row
Destroyed(rows, error, success) == [table |-> rows, error |-> error, success |-> success]

destroy_always_true(rows, id, db) ==
    IF db # "ok"
    THEN Destroyed(rows, db, FALSE)
    ELSE Destroyed([i \in DOMAIN rows \ {id} |-> rows[i]], "", TRUE)

destroy(rows, id, db) ==
    IF db # "ok"
    THEN Destroyed(rows, db, FALSE)
    ELSE Destroyed([i \in DOMAIN rows \ {id} |-> rows[i]], "", id \in DOMAIN rows)

----------------------------------------------------------------------------
(* DataService: permissions, attachments and the request handlers.          *)

\* a permission of one role on the dataset
RolePermission(writable, creatable, readable, updatable, deletable) ==
    [writable |-> writable, creatable |-> creatable, readable |-> readable,
     updatable |-> updatable, deletable |-> deletable]

\* the flags combined over the roles and writable made consistent with the
\* CRUD actions, the CRUD actions left as the roles grant them
dataset_edit_permissions_as_granted(resource_permissions) ==
    LET any(flag) == \E permission \in resource_permissions : permission[flag]
        crud == any("creatable") /\ any("readable") /\ any("updatable") /\ any("deletable")
        writable == any("writable") \/ crud
    IN  [permitted |-> \/ any("creatable") \/ any("readable")
                       \/ any("updatable") \/ any("deletable"),
         writable |-> writable,
         creatable |-> any("creatable"),
         readable |-> any("readable"),
         updatable |-> any("updatable"),
         deletable |-> any("deletable")]

\* dataset_edit_permissions: the flags of the provider config, combined over
\* the roles; permitted is FALSE when no config is returned and no provider
\* is constructed
dataset_edit_permissions(resource_permissions) ==
    LET any(flag) == \E permission \in resource_permissions : permission[flag]
        crud == any("creatable") /\ any("readable") /\ any("updatable") /\ any("deletable")
        writable == any("writable") \/ crud
    IN  [permitted |-> \/ writable \/ any("creatable") \/ any("readable")
                       \/ any("updatable") \/ any("deletable"),
         writable |-> writable,
         creatable |-> any("creatable") \/ writable,
         readable |-> any("readable") \/ writable,
         updatable |-> any("updatable") \/ writable,
         deletable |-> any("deletable") \/ writable]

\* DatasetFeaturesProvider.parse_crs on the CRS strings of the model
parse_crs(crs) ==
    CASE crs = "EPSG:2056" -> "2056"
      [] crs = "EPSG:4326" -> "4326"
      [] OTHER -> None

\* the result dicts of the handlers; error_code 0 and error_details NoErrors
\* stand for a missing key, kind "raised" for an exception leaving the handler
Result(kind, error, error_code, error_details, feature, features) ==
    [kind |-> kind, error |-> error, error_code |-> error_code,
     error_details |-> error_details, feature |-> feature, features |-> features]

NoResponse == Result("none", "", 0, NoErrors, NoOutFeature, <<>>)

ErrorResult(error, error_code) ==
    Result("error", error, error_code, NoErrors, NoOutFeature, <<>>)

FeatureResult(feature) == Result("feature", "", 0, NoErrors, feature, <<>>)

FeatureCollectionResult(features) ==
    Result("feature_collection", "", 0, NoErrors, NoOutFeature, features)

EmptyResult == Result("empty", "", 0, NoErrors, NoOutFeature, <<>>)

Raised(exception) == Result("raised", exception, 0, NoErrors, NoOutFeature, <<>>)

\* DataService.error_response
error_response(error, details) ==
    Result("error", error, 422, details, NoOutFeature, <<>>)

\* the files of a request: none, or one upload for the field doc
NoFiles == [k |-> "none", field |-> "", valid |-> TRUE]

Upload(field, valid) == [k |-> "file", field |-> field, valid |-> valid]

\* DataService.validate_attachments
validate_attachments(files) ==
    IF files.k = "file" /\ ~files.valid
    THEN "attachment_errors" :> <<Error("error.attachment_validation_failed", files.field)>>
    ELSE NoErrors

\* the value of an attachment field
AttachmentUrl(slug) == "attachment://" \o slug

IsAttachment(value) == value.k = "str" /\ value.s \in {"attachment://s1", "attachment://s2", "attachment://s3"}

\* value[13:]
SlugOf(value) ==
    CASE value.s = "attachment://s1" -> "s1"
      [] value.s = "attachment://s2" -> "s2"
      [] value.s = "attachment://s3" -> "s3"

\* feature["properties"][field] = value
SetProperty(feature, field, value) ==
    [feature EXCEPT !.properties.map = (field :> value) @@ feature.properties.map]

\* what a handler did and returned: the database and the attachment store
\* after it, the result and the log of the handler's effects
Handled(rows, nextval, files_on_disk, drawn_slugs, flds, result, effects) ==
    [table |-> rows, sequence |-> nextval, store |-> files_on_disk, slugs |-> drawn_slugs,
     fields |-> flds, resp |-> result, log |-> effects]

\* the state the handlers run in
World(rows, nextval, files_on_disk, drawn_slugs) ==
    [table |-> rows, sequence |-> nextval, store |-> files_on_disk, slugs |-> drawn_slugs]

\* a handler that returns before touching anything
Refused(w, result) == Handled(w.table, w.sequence, w.store, w.slugs, fields, result, <<>>)

\* the log entry of the validation
ValidateLog(validation_errors) ==
    IF validation_errors = NoErrors THEN <<"validate:ok">> ELSE <<"validate:errors">>

\* `if validation_errors:` of create and update
ValidationFailedNever(validation_errors) == FALSE

ValidationFailed(validation_errors) == validation_errors # NoErrors

\* DataService.show
DataService_show(permissions, w, id, crs) ==
    IF crs # None /\ ~permissions.permitted
    THEN Refused(w, Raised("AttributeError"))
    ELSE IF crs # None /\ parse_crs(crs) = None
    THEN Refused(w, ErrorResult("Invalid CRS", 400))
    ELSE IF ~permissions.permitted
    THEN Refused(w, ErrorResult("error.dataset_not_found", 0))
    ELSE IF ~permissions.readable
    THEN Refused(w, ErrorResult("error.dataset_not_readable", 405))
    ELSE LET feature == show(w.table, id, IF crs = None THEN None ELSE parse_crs(crs))
         IN  Handled(w.table, w.sequence, w.store, w.slugs, fields,
                     IF feature # NoOutFeature
                     THEN FeatureResult(feature)
                     ELSE ErrorResult("error.feature_not_found", 0),
                     <<"read">>)

\* the slug of the next attachment saved
NewSlug(w) == "s" \o ToString(w.slugs + 1)

\* DataService.save_attachments: saved tells whether the attachments service
\* could write the file
save_attachments(w, files, feature, saved) ==
    IF files.k # "file"
    THEN [errors |-> NoErrors, feature |-> feature, saved_attachments |-> {},
          store |-> w.store, slugs |-> w.slugs, log |-> <<>>]
    ELSE IF ~saved
    THEN [errors |-> "attachment_errors" :>
                        <<Error("error.failed_to_save_attachment", files.field)>>,
          feature |-> feature, saved_attachments |-> {},
          store |-> w.store, slugs |-> w.slugs, log |-> <<>>]
    ELSE [errors |-> NoErrors,
          feature |-> SetProperty(feature, files.field, JStr(AttachmentUrl(NewSlug(w)))),
          saved_attachments |-> {NewSlug(w)},
          store |-> w.store \cup {NewSlug(w)}, slugs |-> w.slugs + 1,
          log |-> <<"save">>]

\* the errors the handlers of create and update catch
CaughtErrors == {"DataError", "IntegrityError", "InternalError", "ProgrammingError"}

\* the result of a failed commit
CommitFailed(reason) ==
    error_response("error.feature_commit_failed",
                   "data_errors" :> <<Error(reason, "")>>)

\* the log of a write transaction: begin, the statement, and commit or, when
\* the statement raised, rollback
TransactionLog(error) ==
    IF error = "" THEN <<"begin", "execute", "commit">>
    ELSE <<"begin", "execute", "raise:" \o error, "rollback">>

\* DataService.create
DataService_create(permissions, w, feature, files, saved, db) ==
    IF ~permissions.permitted
    THEN Refused(w, ErrorResult("error.dataset_not_found", 0))
    ELSE IF ~permissions.creatable
    THEN Refused(w, ErrorResult("error.dataset_not_creatable", 405))
    ELSE
    LET Created(v, s, c, before) ==
            LET effects == before \o TransactionLog(c.error)
            IN  IF c.error \in CaughtErrors
                THEN Handled(c.table, c.sequence, s.store \ s.saved_attachments,
                             s.slugs, v.fields,
                             CommitFailed("error.feature_could_not_be_created"),
                             effects \o (IF s.saved_attachments # {} THEN <<"remove">> ELSE <<>>))
                ELSE IF c.error # ""
                THEN Handled(c.table, c.sequence, s.store, s.slugs, v.fields,
                             Raised(c.error), effects)
                ELSE Handled(c.table, c.sequence, s.store, s.slugs, v.fields,
                             FeatureResult(c.feature), effects)
        Saved(v, s, before) ==
            IF s.errors # NoErrors
            THEN Handled(w.table, w.sequence, s.store, s.slugs, v.fields,
                         error_response("error.feature_commit_failed", s.errors),
                         before \o s.log)
            ELSE Created(v, s, create(w.table, w.sequence, s.feature, db), before \o s.log)
        Checked(v, validation_errors) ==
            IF v.exc
            THEN Handled(w.table, w.sequence, w.store, w.slugs, v.fields,
                         Raised("Exception"), <<"validate:raised">>)
            ELSE IF ValidationFailed(validation_errors)
            THEN Handled(w.table, w.sequence, w.store, w.slugs, v.fields,
                         error_response("error.feature_validation_failed", validation_errors),
                         <<"validate:errors">>)
            ELSE Saved(v, save_attachments(w, files, v.feature, saved),
                       ValidateLog(validation_errors))
        AfterValidate(v) == Checked(v, validate_attachments(files) @@ v.errors)
    IN  AfterValidate(validate(feature, TRUE))

\* the attachments of the shown feature that the update replaces:
\* `feature["properties"][key] != value`, a KeyError when the update does not
\* name the field
PreviousAttachments(show_result) ==
    IF show_result.kind # "feature" THEN {}
    ELSE {key \in DOMAIN show_result.feature.properties :
            IsAttachment(show_result.feature.properties[key])}

\* DataService.update
DataService_update(permissions, w, id, feature, files, saved, db) ==
    IF ~permissions.permitted
    THEN Refused(w, ErrorResult("error.dataset_not_found", 0))
    ELSE IF ~permissions.updatable
    THEN Refused(w, ErrorResult("error.dataset_not_updatable", 405))
    ELSE
    LET Updated(v, s, cleaned, u, before) ==
            LET effects == before \o TransactionLog(u.error)
            IN  IF u.error \in CaughtErrors
                THEN IF s.saved_attachments # {}
                     THEN \* the handler names `attachments`, which is not defined
                          Handled(u.table, u.sequence, cleaned, s.slugs, v.fields,
                                  Raised("NameError"), effects)
                     ELSE Handled(u.table, u.sequence, cleaned, s.slugs, v.fields,
                                  CommitFailed("error.feature_could_not_be_updated"), effects)
                ELSE IF u.error # ""
                THEN Handled(u.table, u.sequence, cleaned, s.slugs, v.fields,
                             Raised(u.error), effects)
                ELSE Handled(u.table, u.sequence, cleaned, s.slugs, v.fields,
                             IF u.feature # NoOutFeature
                             THEN FeatureResult(u.feature)
                             ELSE ErrorResult("error.feature_not_found", 0),
                             effects)
        Cleaned(v, s, removed, before) ==
            Updated(v, s, s.store \ removed,
                    update(w.table, w.sequence, id, s.feature, db),
                    before \o (IF removed # {} THEN <<"remove">> ELSE <<>>))
        Shown(v, s, shown, previous, map, before) ==
            IF ~(previous \subseteq DOMAIN map)
            THEN Handled(w.table, w.sequence, s.store, s.slugs, v.fields,
                         Raised("KeyError"), before \o shown.log)
            ELSE Cleaned(v, s,
                         {SlugOf(shown.resp.feature.properties[key]) :
                            key \in {k \in previous :
                                        map[k] # shown.resp.feature.properties[k]}},
                         before \o shown.log)
        Looked(v, s, shown, before) ==
            Shown(v, s, shown, PreviousAttachments(shown.resp),
                  s.feature.properties.map, before)
        Saved(v, s, before) ==
            IF s.errors # NoErrors
            THEN Handled(w.table, w.sequence, s.store, s.slugs, v.fields,
                         error_response("error.feature_commit_failed", s.errors),
                         before \o s.log)
            ELSE Looked(v, s, DataService_show(permissions, w, id, None), before \o s.log)
        Checked(v, validation_errors) ==
            IF v.exc
            THEN Handled(w.table, w.sequence, w.store, w.slugs, v.fields,
                         Raised("Exception"), <<"validate:raised">>)
            ELSE IF ValidationFailed(validation_errors)
            THEN Handled(w.table, w.sequence, w.store, w.slugs, v.fields,
                         error_response("error.feature_validation_failed", validation_errors),
                         <<"validate:errors">>)
            ELSE Saved(v, save_attachments(w, files, v.feature, saved),
                       ValidateLog(validation_errors))
        AfterValidate(v) == Checked(v, validate_attachments(files) @@ v.errors)
    IN  AfterValidate(validate(feature, FALSE))

\* DataService.destroy
DataService_destroy(permissions, w, id, db) ==
    IF ~permissions.permitted
    THEN Refused(w, ErrorResult("error.dataset_not_found", 0))
    ELSE IF ~permissions.deletable
    THEN Refused(w, ErrorResult("error.dataset_not_deletable", 405))
    ELSE
    LET Deleted(shown, d, attached) ==
            LET effects == shown.log \o TransactionLog(d.error)
            IN  IF d.error # ""
                THEN Handled(d.table, w.sequence, w.store, w.slugs, fields,
                             Raised(d.error), effects)
                ELSE IF ~d.success
                THEN Handled(d.table, w.sequence, w.store, w.slugs, fields,
                             ErrorResult("error.feature_not_found", 0), effects)
                ELSE Handled(d.table, w.sequence, w.store \ attached, w.slugs, fields,
                             EmptyResult,
                             effects \o (IF attached # {} THEN <<"remove">> ELSE <<>>))
        Looked(shown) ==
            Deleted(shown, destroy(w.table, id, db),
                    {SlugOf(shown.resp.feature.properties[key]) :
                        key \in PreviousAttachments(shown.resp)})
    IN  Looked(DataService_show(permissions, w, id, None))

\* whether the row satisfies the WHERE clause of a parsed filter; the model
\* evaluates the clause of one comparison by = or !=
FilterMatches(id, row, filter) ==
    \/ filter.sql = <<>>
    \/ /\ Len(filter.sql) = 3
       /\ LET leaf == filter.sql[2]
              value == QueryRow(id, row)[leaf.col]
          IN  CASE leaf.op = "=" -> value = filter.params[leaf.ph]
                [] leaf.op = "!=" -> value # JNull /\ value # filter.params[leaf.ph]
                [] OTHER -> FALSE

\* the ids in ascending order
SortedIds(S) ==
    [n \in 1..Cardinality(S) |->
        CHOOSE i \in S : Cardinality({j \in S : j < i}) = n - 1]

\* DatasetFeaturesProvider.index without bbox, filter_geom, limit and offset:
\* the features of the rows the filter selects, without their boxes
index(rows, client_srid, filter) ==
    LET ids == SortedIds({i \in DOMAIN rows : FilterMatches(i, rows[i], filter)})
    IN  [n \in 1..Len(ids) |->
            feature_from_query(ids[n], rows[ids[n]], SridOr(client_srid),
                               client_srid, FALSE)]

\* a request without a filter
NoFilter == FilterInput("none", JNull)

\* DataService.index
DataService_index(permissions, w, crs, filter) ==
    IF ~permissions.permitted
    THEN Refused(w, ErrorResult("error.dataset_not_found", 0))
    ELSE IF ~permissions.readable
    THEN Refused(w, ErrorResult("error.dataset_not_readable", 405))
    ELSE IF crs # None /\ parse_crs(crs) = None
    THEN Refused(w, ErrorResult("error.invalid_crs", 400))
    ELSE
    LET parsed == IF filter = NoFilter THEN FilterOk(<<>>, <<>>) ELSE parse_filter(filter)
    IN  IF parsed.status = "exception"
        THEN Refused(w, Raised("Exception"))
        ELSE IF parsed.status = "error"
        THEN Refused(w, ErrorResult("error.invalid_filter_expression", 400))
        ELSE Handled(w.table, w.sequence, w.store, w.slugs, fields,
                     FeatureCollectionResult(
                        index(w.table, IF crs = None THEN None ELSE parse_crs(crs), parsed)),
                     <<"read">>)

\* the primary keys and the attachments of the model
MaxId == 2

MaxSlugs == 1

Ids == 1..MaxId

\* a request: the operation, the CRUD flags resolved for the caller, and the
\* id and CRS arguments (0 and None where the operation has none)
Request(op, permissions, id, crs) ==
    [op |-> op, permissions |-> permissions, id |-> id, crs |-> crs]

NoRequest == Request("none", dataset_edit_permissions({}), 0, None)

\* the service before its first request: an empty table, an empty store
ServiceIdle ==
    /\ table = <<>>
    /\ sequence = 1
    /\ store = {}
    /\ slugs = 0
    /\ req = NoRequest
    /\ resp = NoResponse
    /\ log = <<>>
    /\ destroyed = {}

----------------------------------------------------------------------------
(* validate called on one feature object, once or repeatedly.               *)

MaxCalls == 2

NoFeature == Feature("", Properties("absent", EmptyMap), NoGeometry, NoCrs)

ValidateIdle ==
    /\ valInput = [feature |-> NoFeature, new_feature |-> FALSE]
    /\ valFeature = NoFeature
    /\ valResults = <<>>

\* the property maps: every choice of a value or of no value per name
MapsOver(choices) ==
    UNION {[names -> UNION {choices[a] : a \in names}] : names \in SUBSET DOMAIN choices}

PropertyMaps(choices) ==
    {m \in MapsOver(choices) : \A a \in DOMAIN m : m[a] \in choices[a]}

ValidatePropertyInputs ==
    {Properties("absent", EmptyMap), Properties("list", EmptyMap)}
    \cup {Properties("dict", m) : m \in PropertyMaps(
            [name |-> {JNull, JStr(""), JStr("ab"), JStr("abcd"), JList(<<>>)},
             num |-> {JInt("5"), JInt("12"), JStr("ab")},
             pw |-> {JStr("a")}])}

ValidateGeometryInputs ==
    {NoGeometry, NullGeometry,
     Geometry("str", "absent", "absent", "none"),
     Geometry("dict", "absent", "list", "none"),
     Geometry("dict", "Circle", "list", "none"),
     Geometry("dict", "Polygon", "other", "none"),
     Geometry("dict", "Polygon", "absent", "none"),
     Geometry("dict", "Polygon", "list", "square"),
     Geometry("dict", "Polygon", "list", "bowtie"),
     Geometry("dict", "Polygon", "list", "short"),
     Geometry("dict", "Polygon", "list", "hollow"),
     Geometry("dict", "Polygon", "list", "stutter"),
     Geometry("dict", "Polygon", "list", "cube"),
     Geometry("dict", "Point", "list", "dot")}

ValidateCrsInputs ==
    {NoCrs, Crs("str", "", "absent", ""),
     NameCrs("urn:ogc:def:crs:EPSG::2056"),
     NameCrs("EPSG:2056"),
     Crs("dict", "link", "absent", "")}

ValidateFeatureInputs ==
    {Feature(t, p, g, c) : t \in {"Feature", "FeatureCollection"},
                           p \in ValidatePropertyInputs,
                           g \in ValidateGeometryInputs,
                           c \in ValidateCrsInputs}

ValidateConfigs ==
    {DemoConfig,
     [DemoConfig EXCEPT !.allow_null_geometry = TRUE],
     [DemoConfig EXCEPT !.geometry_column = None, !.geometry_type = None, !.srid = None]}

ValidateInit ==
    /\ config \in ValidateConfigs
    /\ valInput \in [feature : ValidateFeatureInputs, new_feature : BOOLEAN]
    /\ valFeature = valInput.feature
    /\ valResults = <<>>
    /\ filterexpr = FilterInput("empty", JNull)
    /\ filterResult = NoResult
    /\ ServiceIdle

\* one call validate(feature, new_feature) on the feature object
Validate ==
    /\ Len(valResults) < MaxCalls
    /\ \A n \in 1..Len(valResults) : ~valResults[n].exc
    /\ LET Returned(v) ==
            /\ valResults' = Append(valResults, [errors |-> v.errors, exc |-> v.exc,
                                                 feature |-> v.feature])
            /\ valFeature' = v.feature
            /\ config' = [config EXCEPT !.fields = v.fields]
       IN  Returned(validate(valFeature, valInput.new_feature))
    /\ UNCHANGED <<valInput, filterVars, serviceVars>>

ValidateNext == Validate

ValidateSpec == ValidateInit /\ [][ValidateNext]_vars

\* C5: the error map of validate has at most one of the keys
\* validation_errors, geometry_errors, data_errors: geometry errors are
\* reported only for a feature without structural errors, field errors only
\* for one with neither structural nor geometry errors.
C5_OneCategory ==
    Len(valResults) >= 1 =>
        LET errors == valResults[1].errors
        IN  /\ Cardinality(DOMAIN errors) <= 1
            /\ DOMAIN errors \subseteq {"validation_errors", "geometry_errors", "data_errors"}
            /\ "geometry_errors" \in DOMAIN errors =>
                    validate_geo_json(valInput.feature, valInput.new_feature) = <<>>
            /\ "data_errors" \in DOMAIN errors =>
                    /\ validate_geo_json(valInput.feature, valInput.new_feature) = <<>>
                    /\ validate_geometry(valInput.feature) = <<>>

\* the feature is wrong in its structure, its geometry and its fields, and
\* validate reported the structure only
C5_Witness ==
    /\ Len(valResults) >= 1
    /\ DOMAIN valResults[1].errors = {"validation_errors"}
    /\ valInput.feature.type # "Feature"
    /\ valInput.feature.geometry.shape = "bowtie"
    /\ valInput.feature.properties.k = "dict"
    /\ "num" \in DOMAIN valInput.feature.properties.map
    /\ valInput.feature.properties.map["num"] = JStr("ab")

----------------------------------------------------------------------------
(* validate on a valid geometry, over the constraints of two fields.        *)

\* the configurations of the text field: every choice of readOnly, required
\* and hidden, with and without enumerated values
NameFieldInputs ==
    {Field("text", [NoConstraints EXCEPT !.readOnly = r, !.required = q,
                                         !.hidden = h, !.values = vs], None) :
        r \in BOOLEAN, q \in BOOLEAN, h \in BOOLEAN, vs \in {<<>>, <<"a", "0">>}}

\* the configurations of the number field: integer or boolean, hidden or
\* not, with and without a minimum and enumerated values
NumFieldInputs ==
    {Field(t, [NoConstraints EXCEPT !.hidden = h, !.min = m, !.values = vs], None) :
        t \in {"integer", "boolean"}, h \in BOOLEAN, m \in {NoNum, IntNum(1)},
        vs \in {<<>>, <<"1", "True">>}}

FieldsConfigs ==
    {[DemoConfig EXCEPT !.fields.name = f, !.fields.num = g] :
        f \in NameFieldInputs, g \in NumFieldInputs}

\* the properties supplied: each of the two absent, null, or a value, the
\* values 0, false and the empty string among them
FieldsPropertyInputs ==
    {Properties("dict", m) : m \in PropertyMaps(
        [name |-> {JNull, JStr(""), JStr("a"), JStr("ab")},
         num |-> {JNull, JInt("0"), JInt("1"), JInt("5"), JBool("false"),
                  JBool("true"), JStr("")}])}

FieldsInit ==
    /\ config \in FieldsConfigs
    /\ valInput \in [feature : {Feature("Feature", p,
                                        Geometry("dict", "Polygon", "list", "square"),
                                        NameCrs("urn:ogc:def:crs:EPSG::2056")) :
                                    p \in FieldsPropertyInputs},
                      new_feature : {TRUE}]
    /\ valFeature = valInput.feature
    /\ valResults = <<>>
    /\ filterexpr = FilterInput("empty", JNull)
    /\ filterResult = NoResult
    /\ ServiceIdle

FieldsSpec == FieldsInit /\ [][ValidateNext]_vars

\* the data errors of the n-th call
DataErrors(n) ==
    IF "data_errors" \in DOMAIN valResults[n].errors
    THEN SeqToSet(valResults[n].errors["data_errors"])
    ELSE {}

\* the properties the feature was sent with
Sent == valInput.feature.properties.map

\* the properties of the feature after the n-th call
Kept(n) == valResults[n].feature.properties.map

\* C12: two calls of validate in a row on the same feature object return the
\* same error map, whatever the feature and the field configuration, and the
\* second call strips nothing the first one left.
C12_SameErrorsTwice ==
    Len(valResults) = 2 =>
        /\ valResults[2].errors = valResults[1].errors
        /\ Kept(2) = Kept(1)

\* the value is absent, null or the empty string
Blank(map, attr) ==
    \/ attr \notin DOMAIN map
    \/ map[attr] = JNull
    \/ map[attr] = JStr("")

\* the errors of the required check for the attribute
RequiredReports(attr) ==
    {Error("validation.missing_required_value_for", attr),
     Error("validation.value_for_cannot_be_blank", attr)}

\* C14: a field that is required and readOnly is never reported missing or
\* blank, whatever the feature supplies for it; a field that is required and
\* not readOnly is reported whenever it is absent, null or the empty string.
C14_RequiredReadOnly ==
    (Len(valResults) >= 1 /\ fields["name"].constraints.required) =>
        IF fields["name"].constraints.readOnly
        THEN DataErrors(1) \cap RequiredReports("name") = {}
        ELSE Blank(Sent, "name") => DataErrors(1) \cap RequiredReports("name") # {}

\* C15: validate never removes a hidden field that is not readOnly when the
\* feature supplies a non-null value for it, 0, false and the empty string
\* included; it removes one only when no value was supplied.
C15_HiddenValueKept ==
    Len(valResults) >= 1 =>
        \A attr \in {"name", "num"} :
            (/\ fields[attr].constraints.hidden
             /\ ~fields[attr].constraints.readOnly
             /\ attr \in DOMAIN Sent
             /\ DOMAIN valResults[1].errors \subseteq {"data_errors"})
                => (attr \in DOMAIN Kept(1) <=> Sent[attr] # JNull)

\* the supplied value of the attribute is checked against the enumerated
\* values: the field is not readOnly, the value is not null and casts
CheckedAgainstValues(attr) ==
    /\ fields[attr].constraints.values # <<>>
    /\ ~fields[attr].constraints.allowMulti
    /\ ~fields[attr].constraints.readOnly
    /\ attr \in DOMAIN Sent
    /\ Sent[attr] # JNull
    /\ Cast(Sent[attr], fields[attr].data_type).ok
    /\ ~(fields[attr].data_type = "boolean" /\ Sent[attr].k = "int")

\* C16: for a field with enumerated values and without allowMulti, validate
\* reports the invalid-value error for every supplied non-null value that
\* casts and whose string form is not one of the values, 0, false and the
\* empty string included, and reports none when it is one of them.
C16_ValuesMembership ==
    Len(valResults) >= 1 =>
        \A attr \in {"name", "num"} :
            CheckedAgainstValues(attr) =>
                (Error("validation.invalid_value_for", attr) \in DataErrors(1)
                    <=> Cast(Sent[attr], fields[attr].data_type).s
                            \notin SeqToSet(fields[attr].constraints.values))

----------------------------------------------------------------------------
(* Filter expressions the parser is run on.                                 *)

MaxLen == 3

MaxSubLen == 2

SeqsUpTo(S, n) == UNION {[1..m -> S] : m \in 0..n}

EvilText == "x'; DROP TABLE t; --"

Leaf(c, o, v) == JList(<<c, o, v>>)

ColumnInputs ==
    {JStr("id"), JStr("name"), JStr("pw"), JStr("?name"), JStr("?pw"), JInt("7")}

OperatorInputs ==
    {JStr(o) : o \in OPERATORS \cup {"like", "is not", " = ", "~"}} \cup {JNull}

ValueInputs ==
    {JNull, JInt("1"), JStr(EvilText), JBool("true"), JList(<<JInt("1")>>), JDict}

\* one leaf, bare (["name","=",1]) or in an array ([["name","=",1]])
LeafInputs ==
    LET leaves == {Leaf(c, o, v) : c \in ColumnInputs, o \in OperatorInputs, v \in ValueInputs}
    IN  leaves \cup {JList(<<l>>) : l \in leaves}

GoodLeaf == Leaf(JStr("name"), JStr("="), JInt("1"))

SoftLeaf == Leaf(JStr("?pw"), JStr("="), JInt("1"))

StructLeaves ==
    {GoodLeaf, SoftLeaf,
     Leaf(JStr("pw"), JStr("="), JInt("1")),
     Leaf(JStr("id"), JStr("like"), JStr(EvilText))}

Keywords == {JStr("AND"), JStr("or"), JStr("xor")}

Junk == {JInt("5"), JList(<<>>), JList(<<JStr("name"), JStr("=")>>)}

NestedArrays ==
    {JList(a) : a \in {b \in SeqsUpTo({GoodLeaf, SoftLeaf, JStr("OR")}, MaxSubLen) :
                          Len(b) >= 1 /\ b[1].k = "list"}}

StructInputs ==
    {JList(a) : a \in SeqsUpTo(StructLeaves \cup Keywords \cup Junk \cup NestedArrays, MaxLen)}

FilterInputs ==
    {FilterInput("empty", JNull), FilterInput("badjson", JNull),
     FilterInput("json", JNull), FilterInput("json", JDict), FilterInput("json", JInt("1"))}
    \cup {FilterInput("json", j) : j \in LeafInputs \cup StructInputs}

----------------------------------------------------------------------------
(* The parser run on one request's filter parameter.                        *)

FilterInit ==
    /\ config = DemoConfig
    /\ filterexpr \in FilterInputs
    /\ filterResult = NoResult
    /\ ValidateIdle
    /\ ServiceIdle

ParseFilter ==
    /\ filterResult = NoResult
    /\ filterResult' = parse_filter(filterexpr)
    /\ UNCHANGED <<config, filterexpr, validateVars, serviceVars>>

FilterNext == ParseFilter

FilterSpec == FilterInit /\ [][FilterNext]_vars

----------------------------------------------------------------------------
(* Properties of parse_filter.                                              *)

\* the array __parse_filter_inner is first called with
EffectiveArray(fe) ==
    IF fe.json.items[1].k # "list" THEN <<fe.json>> ELSE fe.json.items

IsArrayInput(fe) == fe.src = "json" /\ fe.json.k = "list" /\ Len(fe.json.items) > 0

IsKeyword(entry) == entry.k = "str" /\ upper(entry.s) \in CONCAT_OPERATORS

IsNested(entry) == entry.k = "list" /\ Len(entry.items) > 0 /\ entry.items[1].k = "list"

RECURSIVE Alternates(_)

\* leaf or sub-array at every even index, keyword at every odd index, no
\* keyword last, at every nesting level
Alternates(arr) ==
    /\ Len(arr) % 2 = 1
    /\ \A n \in 1..Len(arr) :
        IF n % 2 = 1
        THEN arr[n].k = "list" /\ (IsNested(arr[n]) => Alternates(arr[n].items))
        ELSE IsKeyword(arr[n])

\* a leaf the parser takes: permitted column, allowed operator and value
ValidLeaf(entry) ==
    /\ entry.k = "list" /\ Len(entry.items) = 3
    /\ entry.items[1].k = "str" /\ entry.items[2].k = "str"
    /\ LET col == IF startswith_q(entry.items[1].s)
                  THEN tail(entry.items[1].s) ELSE entry.items[1].s
           op == strip(upper(entry.items[2].s))
       IN  /\ col = primary_key \/ col \in AttributeSet
           /\ op \in OPERATORS
           /\ entry.items[3].k \in VALUE_TYPES
           /\ (op \in {"IS", "IS NOT"} => entry.items[3].k = "NoneType")

\* a `?`-prefixed leaf whose column is neither the primary key nor permitted
SoftMissingLeaf(entry) ==
    /\ entry.k = "list" /\ Len(entry.items) = 3
    /\ entry.items[1].k = "str" /\ startswith_q(entry.items[1].s)
    /\ tail(entry.items[1].s) # primary_key
    /\ tail(entry.items[1].s) \notin AttributeSet

RECURSIVE WellFormedWithSoft(_), KeptLeaves(_), HasSoftMissing(_)

WellFormedWithSoft(arr) ==
    /\ Len(arr) % 2 = 1
    /\ \A n \in 1..Len(arr) :
        IF n % 2 = 1
        THEN \/ IsNested(arr[n]) /\ WellFormedWithSoft(arr[n].items)
             \/ ~IsNested(arr[n]) /\ (ValidLeaf(arr[n]) \/ SoftMissingLeaf(arr[n]))
        ELSE IsKeyword(arr[n])

HasSoftMissing(arr) ==
    \E n \in 1..Len(arr) :
        IF IsNested(arr[n]) THEN HasSoftMissing(arr[n].items) ELSE SoftMissingLeaf(arr[n])

\* number of leaves of a well-formed array that are not dropped
KeptLeaves(arr) ==
    IF arr = <<>> THEN 0
    ELSE (IF IsNested(Head(arr)) THEN KeptLeaves(Head(arr).items)
          ELSE IF Head(arr).k = "list" /\ ~SoftMissingLeaf(Head(arr)) THEN 1 ELSE 0)
         + KeptLeaves(Tail(arr))

FixedTokens == {SqlToken("("), SqlToken(")"), SqlToken("AND"), SqlToken("OR")}

\* C1: a successful parse returns SQL made only of fixed tokens and of
\* comparisons '"<col>" <op> :vN' whose column is the primary key or a
\* permitted attribute, whose operator is an allowed one and whose right side
\* is a placeholder bound in params; no value text is written into the SQL.
C1_InjectionSafe ==
    filterResult.status = "ok" =>
        \A n \in 1..Len(filterResult.sql) :
            LET tk == filterResult.sql[n]
            IN  \/ tk \in FixedTokens
                \/ /\ tk.t = "cmp"
                   /\ tk.col = primary_key \/ tk.col \in AttributeSet
                   /\ tk.op \in OPERATORS
                   /\ tk.lit = ""
                   /\ tk.ph \in DOMAIN filterResult.params

C1_Witness ==
    /\ filterResult.status = "ok"
    /\ \E n \in DOMAIN filterResult.params : filterResult.params[n] = JStr(EvilText)
    /\ \E n \in 1..Len(filterResult.sql) : filterResult.sql[n].t = "cmp"

\* C8: parse_filter returns a SQL fragment only for arrays whose elements
\* strictly alternate (leaf or sub-array, keyword, leaf or sub-array, ...) at
\* every nesting level; every other array is a parse error.
C8_StrictAlternation ==
    (IsArrayInput(filterexpr) /\ filterResult.status = "ok")
        => Alternates(EffectiveArray(filterexpr))

\* C9: in an otherwise well-formed array a `?`-prefixed leaf on a missing
\* column is dropped without a parse error, wherever it stands, and adds no
\* column and no parameter.
C9_SoftLeafDropped ==
    (/\ filterResult.status # "none"
     /\ IsArrayInput(filterexpr)
     /\ WellFormedWithSoft(EffectiveArray(filterexpr))
     /\ HasSoftMissing(EffectiveArray(filterexpr)))
        => /\ filterResult.status = "ok"
           /\ Cardinality(DOMAIN filterResult.params) = KeptLeaves(EffectiveArray(filterexpr))
           /\ \A n \in 1..Len(filterResult.sql) :
                filterResult.sql[n].t = "cmp" =>
                    filterResult.sql[n].col = primary_key \/ filterResult.sql[n].col \in AttributeSet

\* the request is one leaf [[column, operator, value]] on a permitted column
\* with an allowed operator and an allowed value type
SingleLeafInput ==
    /\ IsArrayInput(filterexpr)
    /\ Len(EffectiveArray(filterexpr)) = 1
    /\ LET entry == EffectiveArray(filterexpr)[1]
       IN  /\ entry.k = "list" /\ Len(entry.items) = 3
           /\ entry.items[1].k = "str" /\ ~startswith_q(entry.items[1].s)
           /\ ColumnPermitted(entry.items[1].s)
           /\ entry.items[2].k = "str"
           /\ strip(upper(entry.items[2].s)) \in OPERATORS
           /\ entry.items[3].k \in VALUE_TYPES

LeafOp == strip(upper(EffectiveArray(filterexpr)[1].items[2].s))

LeafValue == EffectiveArray(filterexpr)[1].items[3]

\* the result is the one comparison  "<col>" <op> :v0  with value bound
ComparisonWith(op, value) ==
    /\ filterResult.status = "ok"
    /\ Len(filterResult.sql) = 3
    /\ filterResult.sql[2].t = "cmp" /\ filterResult.sql[2].op = op
    /\ filterResult.sql[2].ph = 0
    /\ filterResult.params = (0 :> value)

RECURSIVE AllDropped(_)

\* an array that produces no leaf: empty, or every leaf of it, at every
\* nesting level, is a `?`-prefixed leaf on a missing column
AllDropped(arr) ==
    \A n \in 1..Len(arr) :
        IF IsNested(arr[n]) THEN AllDropped(arr[n].items) ELSE SoftMissingLeaf(arr[n])

\* the request's filter is a JSON array that produces no leaf
NoLeafInput ==
    /\ filterexpr.src = "json"
    /\ filterexpr.json.k = "list"
    /\ \/ filterexpr.json.items = <<>>
       \/ AllDropped(EffectiveArray(filterexpr))

\* C11: parse_filter has three outcomes: empty or null input is the parse
\* error "Empty expression"; a JSON array that produces no leaf (the empty
\* array, or one whose leaves are all dropped) is the empty-but-valid result
\* (empty SQL, empty params), neither an error nor an exception; every other
\* accepted input is a non-empty parenthesised fragment with its params.
C11_ThreeOutcomes ==
    filterResult.status # "none" =>
        /\ filterexpr.src = "empty" => filterResult = FilterError(<<"Empty expression">>)
        /\ NoLeafInput => filterResult = FilterOk(<<>>, <<>>)
        /\ (filterResult.status = "ok" /\ ~NoLeafInput) =>
                /\ Len(filterResult.sql) >= 3
                /\ filterResult.sql[1] = SqlToken("(")
                /\ filterResult.sql[Len(filterResult.sql)] = SqlToken(")")
                /\ filterResult.params # <<>>

----------------------------------------------------------------------------
(* The service: requests handled one after the other over one dataset.      *)

Readers == RolePermission(FALSE, FALSE, TRUE, FALSE, FALSE)

Creators == RolePermission(FALSE, TRUE, FALSE, FALSE, FALSE)

Updaters == RolePermission(FALSE, FALSE, FALSE, TRUE, FALSE)

Deleters == RolePermission(FALSE, FALSE, FALSE, FALSE, TRUE)

Editors == RolePermission(TRUE, FALSE, FALSE, FALSE, FALSE)

\* the role permissions the callers come with
PermissionInputs ==
    {{}, {Readers}, {Creators}, {Updaters}, {Deleters}, {Editors}}

CrsInputs == {None, "EPSG:4326", "EPSG:x"}

Square == Geometry("dict", "Polygon", "list", "square")

Named(name) == Properties("dict", [name |-> JStr(name)])

\* the features posted: valid ones in the dataset CRS and in another one,
\* one that sets the primary key, one that names the joined attribute, and
\* ones with a field error and a structural error
CreateFeatureInputs ==
    {Feature("Feature", Named("a"), Square, NameCrs("urn:ogc:def:crs:EPSG::2056")),
     Feature("Feature", Named("b"), Square, NameCrs("urn:ogc:def:crs:EPSG::4326")),
     Feature("Feature", Properties("dict", [name |-> JStr("a"), label |-> JStr("a")]),
             Square, NameCrs("urn:ogc:def:crs:EPSG::2056")),
     Feature("Feature", Named("abcd"), Square, NameCrs("urn:ogc:def:crs:EPSG::2056")),
     Feature("FeatureCollection", Named("a"), Square, NameCrs("urn:ogc:def:crs:EPSG::2056"))}
    \cup {Feature("Feature",
                  Properties("dict", [id |-> JInt(ToString(i)), name |-> JStr("a")]),
                  Square, NameCrs("urn:ogc:def:crs:EPSG::2056")) : i \in Ids}

\* the features put: attribute updates that keep or clear the attachment, a
\* geometry update in another CRS that does not name it, and an invalid one
UpdateFeatureInputs ==
    {Feature("Feature", Properties("dict", [name |-> JStr("b"), doc |-> JNull]),
             NoGeometry, NoCrs),
     Feature("Feature", Named("b"), Square, NameCrs("urn:ogc:def:crs:EPSG::4326")),
     Feature("Feature", Named("abcd"), NoGeometry, NoCrs)}
    \cup {Feature("Feature",
                  Properties("dict", [name |-> JStr("b"),
                                      doc |-> JStr(AttachmentUrl("s" \o ToString(n)))]),
                  NoGeometry, NoCrs) : n \in 1..MaxSlugs}

FileInputs == {NoFiles, Upload("doc", TRUE), Upload("doc", FALSE)}

DbOutcomes == {"ok"} \cup DbErrors

IndexFilterInputs ==
    {NoFilter, FilterInput("empty", JNull),
     FilterInput("json", JList(<<JList(<<JStr("name"), JStr("="), JStr("a")>>)>>))}

Init ==
    /\ config = DemoConfig
    /\ filterexpr = FilterInput("empty", JNull)
    /\ filterResult = NoResult
    /\ ValidateIdle
    /\ ServiceIdle

\* the service takes the request r, the handler runs and returns h
Handle(r, h) ==
    /\ req' = r
    /\ resp' = h.resp
    /\ log' = h.log
    /\ table' = h.table
    /\ sequence' = h.sequence
    /\ store' = h.store
    /\ slugs' = h.slugs
    /\ config' = [config EXCEPT !.fields = h.fields]
    /\ destroyed' = IF r.op = "destroy" /\ h.resp = EmptyResult
                     THEN destroyed \cup {r.id}
                     ELSE destroyed
    /\ UNCHANGED <<filterVars, validateVars>>

CurrentWorld == World(table, sequence, store, slugs)

\* the database gives its verdict when a statement reaches it: the outcomes
\* to draw from for a handler whose log, were the verdict "ok", is effects
Verdicts(effects) ==
    IF \E n \in 1..Len(effects) : effects[n] = "execute" THEN DbOutcomes ELSE {"ok"}

\* the attachments service succeeds or fails when a file reaches it
SaveOutcomes(files) == IF files = Upload("doc", TRUE) THEN BOOLEAN ELSE {TRUE}

Index ==
    /\ req = NoRequest
    /\ \E resource_permissions \in PermissionInputs, crs \in CrsInputs,
       filter \in IndexFilterInputs :
        LET permissions == dataset_edit_permissions(resource_permissions)
        IN  Handle(Request("index", permissions, 0, crs),
                    DataService_index(permissions, CurrentWorld, crs, filter))

Show ==
    /\ req = NoRequest
    /\ \E resource_permissions \in PermissionInputs, id \in Ids, crs \in CrsInputs :
        LET permissions == dataset_edit_permissions(resource_permissions)
        IN  Handle(Request("show", permissions, id, crs),
                    DataService_show(permissions, CurrentWorld, id, crs))

Create ==
    /\ req = NoRequest
    /\ \E resource_permissions \in PermissionInputs, feature \in CreateFeatureInputs,
       files \in FileInputs :
        LET permissions == dataset_edit_permissions(resource_permissions)
        IN  /\ "id" \in DOMAIN feature.properties.map \/ sequence <= MaxId
            /\ files = Upload("doc", TRUE) => slugs < MaxSlugs
            /\ \E saved \in SaveOutcomes(files) :
               \E db \in Verdicts(DataService_create(permissions, CurrentWorld, feature,
                                                     files, saved, "ok").log) :
                    Handle(Request("create", permissions, 0, None),
                            DataService_create(permissions, CurrentWorld, feature,
                                               files, saved, db))

\* an update request with one of the given features
UpdateOf(features) ==
    /\ req = NoRequest
    /\ \E resource_permissions \in PermissionInputs, id \in Ids,
       feature \in features, files \in FileInputs :
        LET permissions == dataset_edit_permissions(resource_permissions)
        IN  /\ files = Upload("doc", TRUE) => slugs < MaxSlugs
            /\ \E saved \in SaveOutcomes(files) :
               \E db \in Verdicts(DataService_update(permissions, CurrentWorld, id, feature,
                                                     files, saved, "ok").log) :
                    Handle(Request("update", permissions, id, None),
                            DataService_update(permissions, CurrentWorld, id, feature,
                                               files, saved, db))

Update == UpdateOf(UpdateFeatureInputs)

Destroy ==
    /\ req = NoRequest
    /\ \E resource_permissions \in PermissionInputs, id \in Ids :
        LET permissions == dataset_edit_permissions(resource_permissions)
        IN  \E db \in Verdicts(DataService_destroy(permissions, CurrentWorld, id, "ok").log) :
                Handle(Request("destroy", permissions, id, None),
                        DataService_destroy(permissions, CurrentWorld, id, db))

\* the result is sent to the caller and the request is over
Reply ==
    /\ req # NoRequest
    /\ req' = NoRequest
    /\ resp' = NoResponse
    /\ log' = <<>>
    /\ UNCHANGED <<config, table, sequence, store, slugs, destroyed, filterVars, validateVars>>

Next == Index \/ Show \/ Create \/ Update \/ Destroy \/ Reply

Spec == Init /\ [][Next]_vars

----------------------------------------------------------------------------
(* Updates of a dataset with a readOnly field.                              *)

\* the dataset with the number readOnly and the attachment hidden
ReadOnlyConfig ==
    [DemoConfig EXCEPT !.fields.num.constraints.readOnly = TRUE,
                       !.fields.doc.constraints.hidden = TRUE]

\* the features put: each supplies a value for the readOnly field, alone or
\* along with writable ones
ReadOnlyFeatureInputs ==
    {Feature("Feature", Properties("dict", m), NoGeometry, NoCrs) :
        m \in {[num |-> JInt("7")],
                [num |-> JInt("7"), name |-> JStr("b")],
                [num |-> JStr("ab"), name |-> JStr("b")],
                [num |-> JInt("7"), name |-> JStr("b"), doc |-> JStr("x")],
                [num |-> JInt("7"), name |-> JStr("b"), doc |-> JStr("")]}}
    \cup {Feature("Feature", Properties("dict", [num |-> JInt("7")]), Square,
                   NameCrs("urn:ogc:def:crs:EPSG::4326"))}

\* one row is stored, its number set by whoever manages the readOnly field
ReadOnlyInit ==
    /\ config = ReadOnlyConfig
    /\ filterexpr = FilterInput("empty", JNull)
    /\ filterResult = NoResult
    /\ ValidateIdle
    /\ \E num \in {JNull, JInt("5")}, name \in {JStr("a"), JStr("b")} :
            table = (1 :> Row(name, num, JNull, DbGeom("square", "2056", <<>>)))
    /\ sequence = 2
    /\ store = {}
    /\ slugs = 0
    /\ req = NoRequest
    /\ resp = NoResponse
    /\ log = <<>>
    /\ destroyed = {}

ReadOnlyNext == UpdateOf(ReadOnlyFeatureInputs) \/ Reply

ReadOnlySpec == ReadOnlyInit /\ [][ReadOnlyNext]_vars

----------------------------------------------------------------------------
(* Properties of the service.                                               *)

InLog(entry) == \E n \in 1..Len(log) : log[n] = entry

InLogAfter(entry) == \E n \in 1..Len(log') : log'[n] = entry

\* the CRUD flag the operation of the request needs
FlagFor(r) ==
    CASE r.op \in {"index", "show"} -> r.permissions.readable
      [] r.op = "create" -> r.permissions.creatable
      [] r.op = "update" -> r.permissions.updatable
      [] r.op = "destroy" -> r.permissions.deletable
      [] OTHER -> TRUE

\* C2: when the CRUD flag of the operation is false on the provider, index,
\* show, create, update and destroy each return the method-not-allowed
\* error (error_code 405) and do nothing else: no validation, no attachment
\* saved, no statement sent to the database.
C2_MethodNotAllowed ==
    req.op # "none" /\ req.permissions.permitted /\ ~FlagFor(req) =>
        /\ resp.kind = "error"
        /\ resp.error_code = 405
        /\ log = <<>>

\* C3: create and update open the write transaction only after validate and
\* validate_attachments returned no error for the feature; when validation
\* reports an error the request ends with the validation-failed result and
\* no transaction is opened.
C3_WriteAfterValidation ==
    req.op \in {"create", "update"} =>
        /\ \A n \in 1..Len(log) :
                log[n] = "begin" => \E m \in 1..(n - 1) : log[m] = "validate:ok"
        /\ InLog("validate:errors") =>
                /\ ~InLog("begin")
                /\ resp.kind = "error"
                /\ resp.error = "error.feature_validation_failed"
                /\ resp.error_code = 422

\* an invalid feature was posted by a caller who may create, and refused
C3_Witness ==
    /\ req.op = "create"
    /\ req.permissions.creatable
    /\ InLog("validate:errors")
    /\ "data_errors" \in DOMAIN resp.error_details
    /\ table = <<>>

\* C4: when the INSERT or UPDATE raises DataError, IntegrityError,
\* InternalError or ProgrammingError the transaction is rolled back, the
\* table is what it was before the call and the caller gets an error result
\* with error_code 422 and a data_errors detail; a statement that returns
\* normally is committed.
C4_RollbackAndReport ==
    [][req'.op \in {"create", "update"} =>
        /\ (\E e \in CaughtErrors : InLogAfter("raise:" \o e)) =>
                /\ InLogAfter("rollback")
                /\ table' = table
                /\ resp'.kind = "error"
                /\ resp'.error_code = 422
                /\ "data_errors" \in DOMAIN resp'.error_details
        /\ (InLogAfter("execute") /\ ~InLogAfter("rollback")) => InLogAfter("commit")
      ]_vars

\* 'EPSG:<srid>' of the SRID in a CRS name
CrsOfUrn(name) == "EPSG:" \o SridOfUrn(name)

NotFound(w, id) ==
    \A crs \in {None, "EPSG:2056", "EPSG:4326"} :
        DataService_show(dataset_edit_permissions({Readers}), w, id, crs).resp
            = ErrorResult("error.feature_not_found", 0)

\* a destroy whose DELETE ran and returned
DestroyReturned ==
    /\ req'.op = "destroy"
    /\ InLogAfter("commit")

\* destroy returns true iff the row existed, and then the row is deleted;
\* destroy of an id without a row is reported as feature not found and
\* leaves the table as it was
DestroyIffExisted ==
    DestroyReturned =>
        /\ resp' = EmptyResult <=> req'.id \in DOMAIN table
        /\ resp' = EmptyResult =>
                table' = [i \in DOMAIN table \ {req'.id} |-> table[i]]
        /\ resp' # EmptyResult =>
                /\ resp' = ErrorResult("error.feature_not_found", 0)
                /\ table' = table

\* C7: destroy returns true iff one row with the primary key existed and was
\* deleted; after a destroy that returned true every later show of the id
\* reports not found; a destroy of an id that does not exist returns false
\* and leaves the table unchanged.
C7_DestroyedStaysGone ==
    [][/\ DestroyIffExisted
       /\ \A id \in destroyed' : NotFound(World(table', sequence', store', slugs'), id)
      ]_vars

\* C7 with the time bounded: after a destroy that returned true, show of the
\* id reports not found until a create or an update returns a feature with
\* that id.
C7_DestroyedGoneUntilWritten ==
    [][/\ DestroyIffExisted
       /\ (DestroyReturned /\ resp' = EmptyResult) =>
                NotFound(World(table', sequence', store', slugs'), req'.id)
       /\ \A id \in Ids :
            (/\ NotFound(CurrentWorld, id)
             /\ ~NotFound(World(table', sequence', store', slugs'), id)) =>
                /\ req'.op \in {"create", "update"}
                /\ resp'.kind = "feature"
                /\ resp'.feature.id = id
      ]_vars

\* a row was destroyed and show no longer finds it
C7_Witness ==
    /\ req.op = "destroy"
    /\ resp = EmptyResult
    /\ req.id \in destroyed
    /\ NotFound(CurrentWorld, req.id)
    /\ table # <<>>

\* what validate leaves of the properties sent, and the columns the UPDATE
\* of the validated feature names: no readOnly attribute, every writable one
ReadOnlyStripped(sent, v) ==
    v.errors = NoErrors =>
        \A a \in DOMAIN sent :
            IF fields[a].constraints.readOnly
            THEN /\ a \notin DOMAIN v.feature.properties.map
                 /\ a \notin SeqToSet(sql_params_for_feature(v.feature).columns)
            ELSE /\ a \in DOMAIN v.feature.properties.map
                 /\ v.feature.properties.map[a] = sent[a]

\* C13: in every update whose feature supplies a value for a readOnly
\* attribute, the attribute is not in the column list of the UPDATE and its
\* stored value is after the update what it was before; validate removes
\* the readOnly attributes from the properties and leaves the writable ones.
C13_ReadOnlyNotWritten ==
    [][req'.op = "update" =>
        /\ \A i \in DOMAIN table :
                i \in DOMAIN table' /\ table'[i].num = table[i].num
        /\ \A feature \in ReadOnlyFeatureInputs :
                ReadOnlyStripped(feature.properties.map, validate(feature, FALSE))
      ]_vars

----------------------------------------------------------------------------
(* index with a limit and an offset.                                        *)

\* the rows of a table index is paged over
MaxRows == 3

\* limit and offset as index receives them: omitted (None) or a number
Omitted == [given |-> FALSE, n |-> 0]

Given(n) == [given |-> TRUE, n |-> n]

\* the truth value Python gives it: None and 0 are false
Nonzero(x) == x.given /\ x.n # 0

\* the dummy feature {} index appends for a row outside the range
Dummy == NoOutFeature

\* features[start:end] of a list, end = -1 standing for None
Slice(features, start, end) ==
    LET last == IF end = -1 \/ end > Len(features) THEN Len(features) ELSE end
    IN  IF start >= last THEN <<>> ELSE SubSeq(features, start + 1, last)

PageResult(exc, features, numberMatched, numberReturned) ==
    [exc |-> exc, features |-> features, numberMatched |-> numberMatched,
     numberReturned |-> numberReturned]

\* DatasetFeaturesProvider.index, its subset range: the rows the filter
\* selects in the order of the result, dummies outside [start, end), the
\* slice of the list and the two counts
index_subset(rows, client_srid, filter, limit, offset) ==
    LET ids == SortedIds({i \in DOMAIN rows : FilterMatches(i, rows[i], filter)})
        start == IF Nonzero(offset) THEN offset.n ELSE 0
        Listed(end) ==
            LET features ==
                    [n \in 1..Len(ids) |->
                        IF n - 1 < start \/ (end # -1 /\ n - 1 >= end)
                        THEN Dummy
                        ELSE feature_from_query(ids[n], rows[ids[n]], SridOr(client_srid),
                                                client_srid, FALSE)]
                Subset(features_subset) ==
                    PageResult("", features_subset, Len(features), Len(features_subset))
            IN  Subset(Slice(features, start, end))
    IN  IF Nonzero(limit)
        THEN IF ~offset.given
             THEN PageResult("TypeError", <<>>, 0, 0)
             ELSE Listed(offset.n + limit.n)
        ELSE Listed(-1)

PageNumbers == {Omitted} \cup {Given(n) : n \in 0..MaxRows - 1}

PageFilterInputs == {FilterOk(<<>>, <<>>)} \cup
    {parse_filter(FilterInput("json", JList(<<JList(<<JStr("name"), JStr("="), JStr(v)>>)>>)))
        : v \in {"a"}}

PageTables ==
    UNION {[S -> {Row(JStr(name), JNull, JNull, NullGeom) : name \in {"a", "b"}}]
            : S \in SUBSET (1..MaxRows)}

PageRequest(filter, limit, offset) ==
    [op |-> "index", filter |-> filter, limit |-> limit, offset |-> offset]

PageInit ==
    /\ config = DemoConfig
    /\ filterexpr = FilterInput("empty", JNull)
    /\ filterResult = NoResult
    /\ ValidateIdle
    /\ table \in PageTables
    /\ sequence = MaxRows + 1
    /\ store = {}
    /\ slugs = 0
    /\ req = NoRequest
    /\ resp = NoResponse
    /\ log = <<>>
    /\ destroyed = {}

\* one call of index on the table
IndexSubset ==
    /\ req = NoRequest
    /\ \E filter \in PageFilterInputs, limit \in PageNumbers, offset \in PageNumbers :
        /\ req' = PageRequest(filter, limit, offset)
        /\ resp' = index_subset(table, None, filter, limit, offset)
    /\ log' = <<"read">>
    /\ UNCHANGED <<config, filterVars, validateVars, table, sequence, store, slugs,
                   destroyed>>

PageNext == IndexSubset

PageSpec == PageInit /\ [][PageNext]_vars

\* the features of the rows matching the WHERE clause, in result order
Matching(filter) == index(table, None, filter)

\* the rows at the positions offset <= i < offset + limit
Window(matching, limit, offset) ==
    LET from == IF offset.given THEN offset.n ELSE 0
        to == IF limit.given THEN from + limit.n ELSE Len(matching)
    IN  [n \in 1..(IF to > Len(matching) THEN Len(matching) ELSE to) - from |->
            matching[from + n]]

\* C17: for every combination of limit and offset, given or omitted, index
\* raises no exception, numberMatched is the number of rows matching the
\* WHERE clause, the features returned are the rows at the positions
\* offset <= i < offset + limit of the result (from 0 without offset, to the
\* end without limit) and numberReturned is their number.
C17_LimitOffset ==
    req.op = "index" =>
        /\ resp.exc = ""
        /\ resp.numberMatched = Len(Matching(req.filter))
        /\ resp.features = Window(Matching(req.filter), req.limit, req.offset)
        /\ resp.numberReturned = Len(resp.features)

----------------------------------------------------------------------------
(* The columns the queries select and return.                               *)

\* the requested field subset of index and show: None or a list of names
NoFilterFields == [given |-> FALSE, names |-> {}]

FilterFields(names) == [given |-> TRUE, names |-> names]

Projection(exc, columns) == [exc |-> exc, attributes |-> columns]

\* __prepare_join_query: the permitted attributes the caller asked for (all
\* of them without filter_fields or with an empty list); for a list without
\* the primary key the code calls list.prepend, which no list has
prepare_join_query(filter_fields) ==
    LET wanted == IF filter_fields.given /\ filter_fields.names # {}
                  THEN filter_fields.names
                  ELSE AttributeSet
        Ensured(selected) ==
            IF primary_key \notin SeqToSet(selected)
            THEN Projection("AttributeError", <<>>)
            ELSE Projection("", selected)
    IN  Ensured(Select(attributes, wanted))

\* the return_columns of sql_params_for_feature: the attributes that are not
\* joined from another table, and list.prepend again without the primary key
return_columns ==
    LET own_attributes == Select(attributes, {a \in AttributeSet : fields[a].joinfield = None})
    IN  IF primary_key \notin SeqToSet(own_attributes)
        THEN Projection("AttributeError", <<>>)
        ELSE Projection("", own_attributes)

\* the projection of an operation: index and show select the attributes of
\* __prepare_join_query(filter_fields); create and update first build the
\* RETURNING list and then call __prepare_join_query()
projection(op, filter_fields) ==
    IF op \in {"index", "show"}
    THEN prepare_join_query(filter_fields)
    ELSE IF return_columns.exc # ""
    THEN return_columns
    ELSE prepare_join_query(NoFilterFields)

\* the datasets: the attributes a role is permitted, in the order of the
\* resource's fields
ProjectionConfigs ==
    {[DemoConfig EXCEPT !.attributes = Select(DemoConfig.attributes, S),
                        !.fields = [a \in S |-> DemoConfig.fields[a]]]
        : S \in SUBSET {"id", "name", "num", "doc", "label"}}

FilterFieldsInputs ==
    {NoFilterFields} \cup
    {FilterFields(names) : names \in SUBSET {"id", "name", "geometry"}}

ProjectionRequest(op, filter_fields) == [op |-> op, filter_fields |-> filter_fields]

ProjectionInit ==
    /\ config \in ProjectionConfigs
    /\ filterexpr = FilterInput("empty", JNull)
    /\ filterResult = NoResult
    /\ ValidateIdle
    /\ ServiceIdle

\* one operation computes its projection
Project ==
    /\ req = NoRequest
    /\ \/ \E op \in {"index", "show"}, filter_fields \in FilterFieldsInputs :
            /\ req' = ProjectionRequest(op, filter_fields)
            /\ resp' = projection(op, filter_fields)
       \/ \E op \in {"create", "update"} :
            /\ req' = ProjectionRequest(op, NoFilterFields)
            /\ resp' = projection(op, NoFilterFields)
    /\ UNCHANGED <<config, filterVars, validateVars, table, sequence, store, slugs, log,
                   destroyed>>

ProjectionNext == Project

ProjectionSpec == ProjectionInit /\ [][ProjectionNext]_vars

\* C18: the projection of index, show, create and update contains the
\* primary key column: when the permitted attributes or the requested field
\* subset do not contain it, it is added and the operation goes on without
\* an error.
C18_PrimaryKeyProjected ==
    req.op \in {"index", "show", "create", "update"} =>
        /\ resp.exc = ""
        /\ primary_key \in SeqToSet(resp.attributes)

----------------------------------------------------------------------------
(* The provider and the spatial adapter of a backend.                       *)

\* the backends a dataset's config names (None: no `backend` key) and the
\* dialect names of a database engine (None: the engine has no dialect)
BackendNames == {None, "postgres", "postgresql", "mssql", "oracle", "sqlite"}

DialectNames == {None, "postgresql", "mssql", "sqlserver", "oracle", "sqlite"}

\* `part in dialect_name` for the names above
Contains(dialect_name, part) ==
    \/ dialect_name = part
    \/ dialect_name = "postgresql" /\ part = "postgres"

Built(exc, provider, dialect, sql) ==
    [exc |-> exc, provider |-> provider, dialect |-> dialect, sql |-> sql]

NotBuilt == Built("", None, None, None)

\* create_dataset_features_provider: the class of the provider returned for
\* the config's backend and the engine's dialect; importable says whether the
\* MSSQL module can be imported
create_dataset_features_provider(configured, dialect_name, importable) ==
    LET backend ==
            IF dialect_name # None
               /\ (Contains(dialect_name, "mssql") \/ Contains(dialect_name, "sqlserver"))
            THEN "mssql"
            ELSE IF dialect_name # None
                    /\ (Contains(dialect_name, "postgresql")
                        \/ Contains(dialect_name, "postgres"))
            THEN "postgres"
            ELSE IF configured = None THEN "postgres" ELSE configured
    IN  IF backend = "mssql"
        THEN IF importable
             THEN Built("", "DatasetFeaturesProviderMssql", None, None)
             ELSE Built("ImportError", None, None, None)
        ELSE Built("", "DatasetFeaturesProviderPostgres", None, None)

\* SpatialAdapter.__init__
SpatialAdapter(dialect) == Built("", None, dialect, None)

\* SpatialAdapter.transform_geom of the column geom to the dataset's SRID:
\* the SQL of the dialect, None for any other dialect
transform_geom(adapter) ==
    IF adapter.dialect = "postgresql" THEN "ST_Transform(geom, " \o srid \o ")"
    ELSE IF adapter.dialect = "mssql" THEN "geom.STTransform(" \o srid \o ")"
    ELSE None

BackendRequest(op, backend, dialect_name, importable) ==
    [op |-> op, backend |-> backend, dialect_name |-> dialect_name,
     importable |-> importable]

BackendInit ==
    /\ config = DemoConfig
    /\ filterexpr = FilterInput("empty", JNull)
    /\ filterResult = NoResult
    /\ ValidateIdle
    /\ ServiceIdle

\* a provider is constructed for a dataset
CreateProvider ==
    /\ req.op \in {"none", "transform_geom"}
    /\ \E backend \in BackendNames, dialect_name \in DialectNames, importable \in BOOLEAN :
        /\ req' = BackendRequest("create_dataset_features_provider", backend,
                                 dialect_name, importable)
        /\ resp' = create_dataset_features_provider(backend, dialect_name, importable)
    /\ UNCHANGED <<config, filterVars, validateVars, table, sequence, store, slugs, log,
                   destroyed>>

\* a spatial adapter is constructed for a dialect
CreateAdapter ==
    /\ req.op \in {"none", "transform_geom"}
    /\ \E dialect \in DialectNames \ {None} :
        /\ req' = BackendRequest("SpatialAdapter", None, dialect, TRUE)
        /\ resp' = SpatialAdapter(dialect)
    /\ UNCHANGED <<config, filterVars, validateVars, table, sequence, store, slugs, log,
                   destroyed>>

\* a query asks the adapter constructed last for its SQL
TransformGeom ==
    /\ req.op = "SpatialAdapter"
    /\ resp.exc = ""
    /\ req' = [req EXCEPT !.op = "transform_geom"]
    /\ resp' = [resp EXCEPT !.sql = transform_geom(resp)]
    /\ log' = <<"transform_geom">>
    /\ UNCHANGED <<config, filterVars, validateVars, table, sequence, store, slugs,
                   destroyed>>

BackendNext == CreateProvider \/ CreateAdapter \/ TransformGeom

BackendSpec == BackendInit /\ [][BackendNext]_vars

\* the dialects the code has SQL for
SupportedBackends == {"postgres", "postgresql", "mssql"}

\* the provider is asked for a backend the code does not know: the config
\* names one, and the engine's dialect does not replace it by a known one
UnknownBackend(r) ==
    /\ r.backend \notin SupportedBackends \cup {None}
    /\ r.dialect_name \notin SupportedBackends \cup {"sqlserver"}

\* C19: constructing a provider or a spatial adapter for a backend or dialect
\* that is not postgres, postgresql or mssql fails at construction: no
\* provider and no adapter of an unknown dialect is returned, and no
\* query-time operation runs with one.
C19_UnknownDialectRejected ==
    /\ (req.op = "create_dataset_features_provider"
        /\ UnknownBackend(req))
            => resp.exc # "" /\ resp.provider = None
    /\ (req.op = "SpatialAdapter" /\ req.dialect_name \notin SupportedBackends)
            => resp.exc # ""
    /\ req.op = "transform_geom" => resp.dialect \in SupportedBackends

----------------------------------------------------------------------------
(* extent and the WHERE clause of index.                                    *)

\* the filterexpr argument: None (NoResult) or the value parse_filter
\* returned, the tuple (sql, params)
Where(clauses, params) == [clauses |-> clauses, params |-> params]

\* where_clauses and params of index for its filterexpr (no bbox):
\* `if filterexpr is not None and filterexpr[0]`
index_where(filter) ==
    IF filter.status # "none" /\ filter.sql # <<>>
    THEN Where(<<filter.sql>>, filter.params)
    ELSE Where(<<>>, <<>>)

\* where_clauses and params of extent: `if filterexpr is not None`
extent_where(filter) ==
    IF filter.status # "none"
    THEN Where(<<filter.sql>>, filter.params)
    ELSE Where(<<>>, <<>>)

Extent(exc, queried, bbox, where) ==
    [exc |-> exc, queried |-> queried, bbox |-> bbox, where |-> where]

\* DatasetFeaturesProvider.extent: None without a geometry column; else one
\* aggregate query, which the database refuses when a predicate of its WHERE
\* clause is empty ("WHERE " and nothing after it), and whose ST_Extent is
\* here the set of the transformed geometries of the rows selected
extent(rows, client_srid, filter) ==
    LET Queried(where) ==
            IF geometry_column = None
            THEN Extent("", FALSE, {}, where)
            ELSE IF \E n \in 1..Len(where.clauses) : where.clauses[n] = <<>>
            THEN Extent("ProgrammingError", TRUE, {}, where)
            ELSE Extent("", TRUE,
                        {transform_geom_sql(rows[i].geom, srid, SridOr(client_srid)) :
                            i \in {j \in DOMAIN rows :
                                    /\ FilterMatches(j, rows[j], filter)
                                    /\ rows[j].geom # NullGeom}},
                        where)
    IN  Queried(extent_where(filter))

ExtentConfigs ==
    {DemoConfig,
     [DemoConfig EXCEPT !.geometry_column = None, !.geometry_type = None, !.srid = None]}

ExtentTables ==
    UNION {[S -> {Row(JStr(name), JNull, JNull, geom) :
                    name \in {"a", "b"},
                    geom \in {NullGeom, DbGeom("square", "2056", <<>>)}}]
            : S \in SUBSET Ids}

ExtentFilterInputs ==
    {NoResult, FilterOk(<<>>, <<>>),
     parse_filter(FilterInput("json",
                              JList(<<JList(<<JStr("name"), JStr("="), JStr("a")>>)>>)))}

ExtentRequest(client_srid, filter) ==
    [op |-> "extent", client_srid |-> client_srid, filter |-> filter]

ExtentInit ==
    /\ config \in ExtentConfigs
    /\ filterexpr = FilterInput("empty", JNull)
    /\ filterResult = NoResult
    /\ ValidateIdle
    /\ table \in ExtentTables
    /\ sequence = MaxId + 1
    /\ store = {}
    /\ slugs = 0
    /\ req = NoRequest
    /\ resp = NoResponse
    /\ log = <<>>
    /\ destroyed = {}

\* one call of extent on the table
GetExtent ==
    /\ req = NoRequest
    /\ \E client_srid \in {None, "4326"}, filter \in ExtentFilterInputs :
        LET Returned(e) ==
                /\ req' = ExtentRequest(client_srid, filter)
                /\ resp' = e
                /\ log' = IF e.queried THEN <<"read">> ELSE <<>>
        IN  Returned(extent(table, IF geometry_column = None THEN None ELSE client_srid,
                            filter))
    /\ UNCHANGED <<config, filterVars, validateVars, table, sequence, store, slugs,
                   destroyed>>

ExtentNext == GetExtent

ExtentSpec == ExtentInit /\ [][ExtentNext]_vars

\* C20: extent treats its filterexpr as index does: for None and for the
\* empty sentinel (empty SQL) its query has no filter predicate, for a
\* fragment it has the predicate and the params index has; without a
\* geometry column extent returns null and runs no query.
C20_ExtentWhereAsIndex ==
    req.op = "extent" =>
        /\ resp.queried => /\ resp.where = index_where(req.filter)
                           /\ resp.exc = ""
        /\ geometry_column = None => ~resp.queried /\ resp.bbox = {}

----------------------------------------------------------------------------
(* validate on a dataset with a bigint field.                               *)

\* the configurations of the bigint field: minimum and maximum absent, a
\* number, or a number written as a string
BigintFieldInputs ==
    {Field("bigint", [NoConstraints EXCEPT !.readOnly = r, !.min = lo, !.max = hi], None) :
        r \in BOOLEAN, lo \in {NoNum, IntNum(0), StrNum(0)},
        hi \in {NoNum, IntNum(9), StrNum(9)}}

BigintConfigs == {[DemoConfig EXCEPT !.fields.num = g] : g \in BigintFieldInputs}

BigintPropertyInputs ==
    {Properties("dict", m) : m \in PropertyMaps(
        [name |-> {JStr("a")},
         num |-> {JNull, JInt("5"), JInt("12"), JStr("ab")}])}

BigintInit ==
    /\ config \in BigintConfigs
    /\ valInput \in [feature : {Feature("Feature", p,
                                        Geometry("dict", "Polygon", "list", "square"),
                                        NameCrs("urn:ogc:def:crs:EPSG::2056")) :
                                    p \in BigintPropertyInputs},
                      new_feature : BOOLEAN]
    /\ valFeature = valInput.feature
    /\ valResults = <<>>
    /\ filterexpr = FilterInput("empty", JNull)
    /\ filterResult = NoResult
    /\ ServiceIdle

BigintSpec == BigintInit /\ [][ValidateNext]_vars

\* C21: validate leaves the dataset configuration as it was: after a call
\* every field's data_type and constraints, the min and max of a bigint
\* field given as strings among them, are what they were before the call.
C21_ConfigUnchanged == [][config' = config]_vars

----------------------------------------------------------------------------
(* The SQL fragment of a geometry transformation.                           *)

\* a geometry expression: the SQL it starts from (None for no fragment) and
\* the target SRIDs of the ST_Transform calls wrapped around it, innermost
\* first
SqlFragment(expr, transforms) == [expr |-> expr, transforms |-> transforms]

NoFragment == SqlFragment(None, <<>>)

\* transform_geom_sql on the fragment: "ST_Transform(%s, %s)" around it
\* unless there is no fragment, no SRID of the input or the SRIDs agree
transform_geom_sql_fragment(geom_sql, geom_srid, target_srid) ==
    IF geom_sql = NoFragment \/ geom_srid = None \/ geom_srid = target_srid
    THEN geom_sql
    ELSE SqlFragment(geom_sql.expr, Append(geom_sql.transforms, target_srid))

\* SpatialAdapter.transform_geom on the column: the transformation of the
\* adapter's dialect, None for any other dialect
adapter_transform_geom(adapter, geom_column, target_srid) ==
    IF adapter.dialect \in {"postgresql", "mssql"}
    THEN SqlFragment(geom_column.expr, Append(geom_column.transforms, target_srid))
    ELSE NoFragment

SridInputs == {None, "2056", "4326", "3857"}

FragmentInputs ==
    {NoFragment} \cup
    {SqlFragment(e, t) :
        e \in {"geom", "ST_SetSRID(ST_GeomFromGeoJSON(:geom), srid)",
               "ST_SetSRID('BOX3D(:minx :miny, :maxx :maxy)'::box3d, srid)"},
        t \in {<<>>, <<"2056">>}}

TransformRequest(op, geom_sql, geom_srid, target_srid) ==
    [op |-> op, geom_sql |-> geom_sql, geom_srid |-> geom_srid,
     target_srid |-> target_srid]

TransformInit ==
    /\ config = DemoConfig
    /\ filterexpr = FilterInput("empty", JNull)
    /\ filterResult = NoResult
    /\ ValidateIdle
    /\ ServiceIdle

\* the provider builds the fragment of a geometry
TransformGeomSql ==
    /\ req = NoRequest
    /\ \E geom_sql \in FragmentInputs, geom_srid \in SridInputs, target_srid \in SridInputs :
        /\ req' = TransformRequest("transform_geom_sql", geom_sql, geom_srid, target_srid)
        /\ resp' = transform_geom_sql_fragment(geom_sql, geom_srid, target_srid)
    /\ UNCHANGED <<config, filterVars, validateVars, table, sequence, store, slugs, log,
                   destroyed>>

\* an adapter builds the fragment of a column
AdapterTransformGeom ==
    /\ req = NoRequest
    /\ \E dialect \in {"postgresql", "mssql"}, geom_column \in FragmentInputs \ {NoFragment},
         target_srid \in SridInputs :
        /\ req' = TransformRequest("transform_geom", geom_column, dialect, target_srid)
        /\ resp' = adapter_transform_geom(SpatialAdapter(dialect), geom_column, target_srid)
    /\ UNCHANGED <<config, filterVars, validateVars, table, sequence, store, slugs, log,
                   destroyed>>

TransformNext == TransformGeomSql \/ AdapterTransformGeom

TransformSpec == TransformInit /\ [][TransformNext]_vars

\* C22: the transform fragment is the input fragment whenever the source
\* SRID equals the target SRID or the source or the target SRID is unknown;
\* a transform call is emitted only when both are known and differ.
C22_TransformPassthrough ==
    /\ req.op = "transform_geom_sql" =>
        IF req.geom_srid = None \/ req.target_srid = None
           \/ req.geom_srid = req.target_srid
        THEN resp = req.geom_sql
        ELSE resp \in {req.geom_sql,
                       SqlFragment(req.geom_sql.expr,
                                   Append(req.geom_sql.transforms, req.target_srid))}
    /\ req.op = "transform_geom" =>
        (req.target_srid = None => resp = req.geom_sql)

----------------------------------------------------------------------------
(* The placeholders of a parsed filter.                                     *)

\* the positions of the comparisons in the SQL of the result
LeafPositions == {n \in 1..Len(filterResult.sql) : filterResult.sql[n].t = "cmp"}

\* C23: in a successful parse_filter result params has as many entries as
\* the SQL has leaves, and every leaf has a placeholder :vN of its own that
\* is bound in params, at any nesting depth and with soft leaves dropped.
C23_UniquePlaceholders ==
    filterResult.status = "ok" =>
        /\ Cardinality(DOMAIN filterResult.params) = Cardinality(LeafPositions)
        /\ \A n \in LeafPositions : filterResult.sql[n].ph \in DOMAIN filterResult.params
        /\ \A m, n \in LeafPositions :
                m # n => filterResult.sql[m].ph # filterResult.sql[n].ph

\* a leaf, then a nested array and a dropped soft leaf, then a leaf again
C23_Witness ==
    /\ filterResult.status = "ok"
    /\ filterexpr.src = "json"
    /\ filterexpr.json = JList(<<GoodLeaf, JList(<<SoftLeaf, GoodLeaf>>), GoodLeaf>>)
    /\ Cardinality(LeafPositions) = 3
    /\ {filterResult.sql[n].ph : n \in LeafPositions} = {0, 1, 2}

----------------------------------------------------------------------------
(* The validation connection of validate_fields.                            *)

\* the connection: the state of its transaction ("active" or "aborted"),
\* the savepoints before_validation it holds and the statements it was sent
Connection(status, savepoints, statements) ==
    [status |-> status, savepoints |-> savepoints, statements |-> statements]

Executed(conn, raised) == [conn |-> conn, raised |-> raised]

\* conn.execute of one statement; fails says whether the database rejects
\* the cast of a SELECT.  An aborted transaction refuses every statement but
\* the rollback to a savepoint (InFailedSqlTransaction, an InternalError).
execute(conn, statement, fails) ==
    LET sent == [conn EXCEPT !.statements = Append(@, statement)]
    IN  IF conn.status = "aborted" /\ statement # "ROLLBACK TO SAVEPOINT"
        THEN Executed(sent, "InternalError")
        ELSE IF statement = "SAVEPOINT"
        THEN Executed([sent EXCEPT !.savepoints = @ + 1], "")
        ELSE IF statement = "SELECT"
        THEN IF fails
             THEN Executed([sent EXCEPT !.status = "aborted"], "DataError")
             ELSE Executed(sent, "")
        ELSE IF conn.savepoints = 0
        THEN Executed([sent EXCEPT !.status = "aborted"], "InternalError")
        ELSE IF statement = "RELEASE SAVEPOINT"
        THEN Executed([sent EXCEPT !.savepoints = @ - 1], "")
        ELSE Executed([sent EXCEPT !.status = "active"], "")

\* the except branch of the probe without its rollback
cast_failed_no_rollback(conn) == Executed(conn, "")

\* the except branch of the probe: ROLLBACK TO SAVEPOINT before_validation
cast_failed(conn) == execute(conn, "ROLLBACK TO SAVEPOINT", FALSE)

\* the loop's state: the connection, the invalid-value errors and the
\* exception that escaped ("" for none)
ProbeState(conn, errors, exc) == [conn |-> conn, errors |-> errors, exc |-> exc]

\* the data type probe of one property: SAVEPOINT, the cast in a try,
\* RELEASE SAVEPOINT after it, the except branch for DataError
probe(attr, input_value, st) ==
    LET data_type == IF attr \in DOMAIN fields THEN fields[attr].data_type ELSE None
        Failed(r) ==
            IF r.raised # ""
            THEN ProbeState(r.conn, st.errors, r.raised)
            ELSE ProbeState(r.conn,
                            Append(st.errors, Error("validation.invalid_value", attr)), "")
        Released(r) == ProbeState(r.conn, st.errors, r.raised)
        Selected(r) ==
            IF r.raised = ""
            THEN Released(execute(r.conn, "RELEASE SAVEPOINT", FALSE))
            ELSE IF r.raised = "DataError"
            THEN Failed(cast_failed(r.conn))
            ELSE ProbeState(r.conn, st.errors, r.raised)
        Saved(r) ==
            IF r.raised # ""
            THEN ProbeState(r.conn, st.errors, r.raised)
            ELSE Selected(execute(r.conn, "SELECT", ~Cast(input_value, data_type).ok))
    IN  IF attr \in DOMAIN fields /\ fields[attr].constraints.readOnly
        THEN st
        ELSE Saved(execute(st.conn, "SAVEPOINT", FALSE))

\* `for attr in feature['properties']`, as far as the connection goes
RECURSIVE probe_properties(_, _, _)
probe_properties(names, map, st) ==
    IF names = <<>> \/ st.exc # "" THEN st
    ELSE probe_properties(Tail(names), map, probe(Head(names), map[Head(names)], st))

ProbeConfigs ==
    {[DemoConfig EXCEPT !.fields.name.data_type = t, !.fields.num.constraints.readOnly = r,
                        !.fields.name.constraints = NoConstraints,
                        !.fields.num.constraints.min = NoNum,
                        !.fields.num.constraints.max = NoNum] :
        t \in {"text", "integer"}, r \in BOOLEAN}

ProbePropertyInputs ==
    PropertyMaps([name |-> {JStr("a"), JList(<<>>)},
                  num |-> {JInt("5"), JStr("ab")},
                  doc |-> {JStr("x"), JList(<<>>)}])

ProbeInit ==
    /\ config \in ProbeConfigs
    /\ filterexpr = FilterInput("empty", JNull)
    /\ filterResult = NoResult
    /\ ValidateIdle
    /\ ServiceIdle

\* validate_fields probes the properties of a feature on a new connection
ProbeFields ==
    /\ req = NoRequest
    /\ \E map \in ProbePropertyInputs :
        /\ req' = [op |-> "validate_fields", map |-> map]
        /\ resp' = probe_properties(Select(PropNames, DOMAIN map), map,
                                    ProbeState(Connection("active", 0, <<>>), <<>>, ""))
    /\ UNCHANGED <<config, filterVars, validateVars, table, sequence, store, slugs, log,
                   destroyed>>

ProbeNext == ProbeFields

ProbeSpec == ProbeInit /\ [][ProbeNext]_vars

\* the properties sent that are probed, and those of them the cast rejects
Probed == {a \in DOMAIN req.map : ~fields[a].constraints.readOnly}

Rejected == {a \in Probed : ~Cast(req.map[a], fields[a].data_type).ok}

CountOf(statements, statement) ==
    Cardinality({n \in 1..Len(statements) : statements[n] = statement})

----------------------------------------------------------------------------
(* The Z suffix of the geometry type.                                       *)

\* the rings of a polygon in the model
MaxRings == 2

\* a coordinate tuple of two or of three numbers
Tuple2 == JList(<<JInt("0"), JInt("1")>>)

Tuple3 == JList(<<JInt("0"), JInt("1"), JInt("5")>>)

\* DatasetFeaturesProvider.has_z: the first element is followed down the
\* nested arrays to a coordinate tuple, whose length is tested
RECURSIVE has_z(_)
has_z(coordinates) ==
    IF coordinates.items[1].k = "list"
    THEN has_z(coordinates.items[1])
    ELSE Len(coordinates.items) = 3

\* GeometryType(geom) of the geometry parsed from a GeoJSON type
GeometryType(type) ==
    CASE type = "Point" -> "POINT"
      [] type = "LineString" -> "LINESTRING"
      [] OTHER -> "POLYGON"

\* geom_type as validate_geometry detects it for a geometry the database
\* parsed: GeometryType and the suffix Z
detected_geom_type(geometry) ==
    IF has_z(geometry.coordinates)
    THEN GeometryType(geometry.type) \o "Z"
    ELSE GeometryType(geometry.type)

\* the coordinate arrays of points, of lines of two vertices and of
\* polygons of closed rings of five vertices
CoordinateInputs ==
    LET tuples == {Tuple2, Tuple3}
        lines == {JList(l) : l \in [1..2 -> tuples]}
        rings == {JList(r) : r \in {q \in [1..5 -> tuples] : q[1] = q[5]}}
    IN  {[type |-> "Point", coordinates |-> t] : t \in tuples}
        \cup {[type |-> "LineString", coordinates |-> l] : l \in lines}
        \cup {[type |-> "Polygon", coordinates |-> JList(p)] :
                p \in UNION {[1..n -> rings] : n \in 1..MaxRings}}

ZInit ==
    /\ config = DemoConfig
    /\ filterexpr = FilterInput("empty", JNull)
    /\ filterResult = NoResult
    /\ ValidateIdle
    /\ ServiceIdle

\* validate_geometry detects the type of a geometry
DetectGeomType ==
    /\ req = NoRequest
    /\ \E geometry \in CoordinateInputs :
        /\ req' = [op |-> "validate_geometry", geometry |-> geometry]
        /\ resp' = [geom_type |-> detected_geom_type(geometry)]
    /\ UNCHANGED <<config, filterVars, validateVars, table, sequence, store, slugs, log,
                   destroyed>>

ZNext == DetectGeomType

ZSpec == ZInit /\ [][ZNext]_vars

\* some coordinate tuple of the nested array has length 3
RECURSIVE AnyTupleOf3(_)
AnyTupleOf3(coordinates) ==
    IF coordinates.items[1].k = "list"
    THEN \E n \in 1..Len(coordinates.items) : AnyTupleOf3(coordinates.items[n])
    ELSE Len(coordinates.items) = 3

\* C25: for a geometry the database parses, validate_geometry appends Z to
\* the detected type iff some coordinate tuple anywhere in the nested
\* coordinates has length 3, not the first tuple of the first array only.
C25_ZWhenAnyTuple ==
    req.op = "validate_geometry" =>
        (resp.geom_type = GeometryType(req.geometry.type) \o "Z"
            <=> AnyTupleOf3(req.geometry.coordinates))

----------------------------------------------------------------------------
(* A dataset with a datasource_filter.                                      *)

\* the filter of the model's dataset: the rows named "a"
NameIsA == "name = 'a'"

\* config.get('datasource_filter', None)
datasource_filter ==
    IF "datasource_filter" \in DOMAIN config THEN config.datasource_filter ELSE None

\* the row satisfies the SQL of the datasource_filter
FilterAdmits(row) == datasource_filter = NameIsA => row.name = JStr("a")

\* DatasetFeaturesProvider.exists: WHERE pkey = :id AND (datasource_filter)
exists(rows, id) == id \in DOMAIN rows /\ FilterAdmits(rows[id])

FilteredConfigs ==
    {[datasource_filter |-> f] @@ DemoConfig : f \in {None, NameIsA}}

FilteredTables ==
    UNION {[S -> {Row(JStr(name), num, JNull, NullGeom) :
                    name \in {"a", "b"}, num \in {JNull, JInt("5")}}]
            : S \in SUBSET Ids}

FilteredFeatureInputs ==
    {Feature("Feature", Properties("dict", m), NoGeometry, NoCrs) :
        m \in {[name |-> JStr("a")], [name |-> JStr("b")], [num |-> JInt("7")]}}

FilteredRequest(op, id, feature) == [op |-> op, id |-> id, feature |-> feature]

FilteredInit ==
    /\ config \in FilteredConfigs
    /\ filterexpr = FilterInput("empty", JNull)
    /\ filterResult = NoResult
    /\ ValidateIdle
    /\ table \in FilteredTables
    /\ sequence = MaxId + 1
    /\ store = {}
    /\ slugs = 0
    /\ req = NoRequest
    /\ resp = NoResponse
    /\ log = <<>>
    /\ destroyed = {}

\* the provider's update of one feature
ProviderUpdate ==
    /\ \E id \in Ids, feature \in FilteredFeatureInputs :
        LET Returned(u) ==
                /\ req' = FilteredRequest("update", id, feature)
                /\ resp' = [found |-> u.feature # NoOutFeature, error |-> u.error]
                /\ table' = u.table
        IN  Returned(update(table, sequence, id, feature, "ok"))
    /\ log' = <<"execute">>
    /\ UNCHANGED <<config, filterVars, validateVars, sequence, store, slugs, destroyed>>

\* the provider's destroy of one feature
ProviderDestroy ==
    /\ \E id \in Ids :
        LET Returned(d) ==
                /\ req' = FilteredRequest("destroy", id, NoFeature)
                /\ resp' = [found |-> d.success, error |-> d.error]
                /\ table' = d.table
        IN  Returned(destroy(table, id, "ok"))
    /\ log' = <<"execute">>
    /\ UNCHANGED <<config, filterVars, validateVars, sequence, store, slugs, destroyed>>

FilteredNext == ProviderUpdate \/ ProviderDestroy

FilteredSpec == FilteredInit /\ [][FilteredNext]_vars

\* C26: on a dataset with a datasource_filter update and destroy do not
\* touch a row the filter excludes: when exists(id) is false before the
\* call, the table is after it what it was and the call reports not found.
C26_FilterHonoured ==
    [][(req'.op \in {"update", "destroy"} /\ ~exists(table, req'.id))
            => table' = table /\ ~resp'.found]_vars

----------------------------------------------------------------------------
(* The attachment files of failed and of successful writes.                 *)

\* the request that just ended did not persist its feature: an attachment
\* could not be saved, or the statement raised an error the handler catches
EndedWithoutPersisting ==
    \/ "attachment_errors" \in DOMAIN resp'.error_details
    \/ \E e \in CaughtErrors : InLogAfter("raise:" \o e)

\* C27: when create or update ends without persisting the feature, because
\* an attachment was not saved or the INSERT or UPDATE raised a caught
\* database error, every file the request saved is removed again and the
\* caller gets the 422 error result: no file of the failed request stays in
\* the store.
C27_NoOrphanAttachment ==
    [][(req'.op \in {"create", "update"} /\ EndedWithoutPersisting) =>
            /\ store' \subseteq store
            /\ resp'.kind = "error"
            /\ resp'.error_code = 422
      ]_vars

\* the rows of rows whose attachment field refers to the file slug
Referencing(rows, slug) ==
    {id \in DOMAIN rows : IsAttachment(rows[id].doc) /\ SlugOf(rows[id].doc) = slug}

\* C28: a file that a persisted row refers to is removed only when the write
\* of the same request dropped the reference: after an update or a destroy
\* no row refers to a file the request removed from the attachment store
C28_RemovedAfterWrite ==
    [][req'.op \in {"update", "destroy"} =>
            \A slug \in store \ store' : Referencing(table', slug) = {}
      ]_vars

----------------------------------------------------------------------------
(* The permissions of several roles combined.                               *)

MaxRoles == 2

CrudFlags == {"creatable", "readable", "updatable", "deletable"}

\* the permissions a role can have on the dataset
RolePermissions ==
    {RolePermission(w, c, r, u, d) : w \in BOOLEAN, c \in BOOLEAN, r \in BOOLEAN,
                                     u \in BOOLEAN, d \in BOOLEAN}

\* what permissions_handler.resource_permissions returns: the permissions of
\* up to MaxRoles roles, none for a dataset no role of the identity may see
RECURSIVE RolesUpTo(_)
RolesUpTo(n) ==
    IF n = 0 THEN {{}}
    ELSE LET fewer == RolesUpTo(n - 1)
         IN  fewer \cup {roles \cup {permission} :
                            roles \in fewer, permission \in RolePermissions}

ResourcePermissionInputs == RolesUpTo(MaxRoles)

PermissionsRequest(resource_permissions) ==
    [op |-> "dataset_edit_permissions", resource_permissions |-> resource_permissions]

PermissionsInit ==
    /\ config = DemoConfig
    /\ filterexpr = FilterInput("empty", JNull)
    /\ filterResult = NoResult
    /\ ValidateIdle
    /\ ServiceIdle

\* the service combines the permissions of the identity's roles
EditPermissions ==
    /\ req = NoRequest
    /\ \E resource_permissions \in ResourcePermissionInputs :
        /\ req' = PermissionsRequest(resource_permissions)
        /\ resp' = dataset_edit_permissions(resource_permissions)
    /\ UNCHANGED <<config, filterVars, validateVars, table, sequence, store, slugs, log,
                   destroyed>>

PermissionsNext == EditPermissions

PermissionsSpec == PermissionsInit /\ [][PermissionsNext]_vars

\* some role of the request grants the flag
Grants(flag) == \E permission \in req.resource_permissions : permission[flag]

\* C29: for a non-empty list of role permissions, writable holds iff the four
\* CRUD flags all hold, each CRUD flag holds iff some role grants it or some
\* role grants writable, and the dataset is not permitted iff no CRUD flag
\* holds
C29_FlagsConsistent ==
    (req.op = "dataset_edit_permissions" /\ req.resource_permissions # {}) =>
        /\ resp.writable <=> \A flag \in CrudFlags : resp[flag]
        /\ \A flag \in CrudFlags : resp[flag] <=> (Grants(flag) \/ Grants("writable"))
        /\ ~resp.permitted <=> \A flag \in CrudFlags : ~resp[flag]

\* two roles that together grant every CRUD action and neither writable
C29_Witness ==
    /\ req.op = "dataset_edit_permissions"
    /\ Cardinality(req.resource_permissions) = 2
    /\ ~Grants("writable")
    /\ \A permission \in req.resource_permissions :
            \E flag \in CrudFlags : ~permission[flag]
    /\ resp.writable
    /\ \A flag \in CrudFlags : resp[flag]

----------------------------------------------------------------------------
(* Providers of datasets whose fields take their values from other          *)
(* datasets (keyvalrel).                                                    *)

\* the frames a chain of nested calls may take before Python raises
\* RecursionError
RecursionLimit == 3

DatasetNames == {"a", "b"}

\* a keyvalrel "table:key:value" that names table, or one that does not
\* split into three parts
KeyValRel(name, parts) == [table |-> name, parts |-> parts]

\* a dataset of the service resources: its keyvalrel, the role permissions
\* of the identity on it
Resource(keyvalrel, permitted) == [keyvalrel |-> keyvalrel, permitted |-> permitted]

\* a field without a keyvalrel
NoKeyValRel == KeyValRel("", 0)

\* constraints['values'] of the field: not set, or the list set
NoValues == [set |-> FALSE, list |-> <<>>]

Values(list) == [set |-> TRUE, list |-> list]

\* the values keyvals reads from the related table
KeyVals(name) == <<[value |-> "k", label |-> name]>>

\* what a call returned: whether a provider was constructed, the values of
\* the keyvalrel field, the exception that left it, and the deepest nesting
\* the calls reached
Provided(provider, values, raised, depth) ==
    [provider |-> provider, values |-> values, raised |-> raised, depth |-> depth]

\* DataService.dataset_features_provider with the dataset_edit_permissions it
\* calls: the keyvalrel of a field is resolved only for write, by a provider
\* of the related table constructed with write False; db tells whether the
\* keyvals query succeeds
RECURSIVE dataset_features_provider(_, _, _, _, _)
dataset_features_provider(resources, dataset, write, db, depth) ==
    LET Resolved(nested, keyvalrel) ==
            Provided(TRUE,
                     IF nested.raised # "" \/ ~nested.provider \/ db # "ok"
                     THEN Values(<<>>)
                     ELSE Values(KeyVals(keyvalrel.table)),
                     "", nested.depth)
        Permitted(keyvalrel) ==
            IF keyvalrel = NoKeyValRel \/ ~write
            THEN Provided(TRUE, NoValues, "", depth)
            ELSE IF keyvalrel.parts # 3
            THEN Provided(TRUE, Values(<<>>), "", depth)
            ELSE Resolved(dataset_features_provider(resources, keyvalrel.table, FALSE,
                                                    db, depth + 1),
                          keyvalrel)
    IN  IF depth > RecursionLimit
        THEN Provided(FALSE, NoValues, "RecursionError", depth)
        ELSE IF dataset \notin DOMAIN resources
        THEN Provided(FALSE, NoValues, "", depth)
        ELSE IF ~resources[dataset].permitted
        THEN Provided(FALSE, NoValues, "", depth)
        ELSE Permitted(resources[dataset].keyvalrel)

\* DataService.dataset_features_provider of src/data_service.py: its
\* dataset_edit_permissions resolves every keyvalrel through self.index on the
\* related table, which asks for the provider of that table in turn
RECURSIVE index_dataset_features_provider(_, _, _, _)
index_dataset_features_provider(resources, dataset, db, depth) ==
    LET Resolved(nested, keyvalrel) ==
            Provided(TRUE,
                     IF nested.raised # "" \/ ~nested.provider \/ db # "ok"
                     THEN Values(<<>>)
                     ELSE Values(KeyVals(keyvalrel.table)),
                     "", nested.depth)
        Permitted(keyvalrel) ==
            IF keyvalrel = NoKeyValRel
            THEN Provided(TRUE, NoValues, "", depth)
            ELSE IF keyvalrel.parts # 3
            THEN Provided(TRUE, Values(<<>>), "", depth)
            ELSE Resolved(index_dataset_features_provider(resources, keyvalrel.table,
                                                          db, depth + 1),
                          keyvalrel)
    IN  IF depth > RecursionLimit
        THEN Provided(FALSE, NoValues, "RecursionError", depth)
        ELSE IF dataset \notin DOMAIN resources
        THEN Provided(FALSE, NoValues, "", depth)
        ELSE IF ~resources[dataset].permitted
        THEN Provided(FALSE, NoValues, "", depth)
        ELSE Permitted(resources[dataset].keyvalrel)

\* the keyvalrels of the configurations: none, one to each dataset (itself
\* included), one to a dataset that is not configured, one that is malformed
KeyValRelInputs ==
    {NoKeyValRel, KeyValRel("x", 3), KeyValRel("a", 1)}
    \cup {KeyValRel(name, 3) : name \in DatasetNames}

ResourcesInputs ==
    [DatasetNames -> {Resource(keyvalrel, permitted) :
                        keyvalrel \in KeyValRelInputs, permitted \in BOOLEAN}]

ProviderRequest(version, resources, dataset, write) ==
    [op |-> "dataset_features_provider", version |-> version, resources |-> resources,
     dataset |-> dataset, write |-> write]

KeyValRelInit ==
    /\ config = DemoConfig
    /\ filterexpr = FilterInput("empty", JNull)
    /\ filterResult = NoResult
    /\ ValidateIdle
    /\ ServiceIdle

\* a handler of src/src/data_service.py asks for the provider of a dataset
DatasetFeaturesProvider ==
    /\ req = NoRequest
    /\ \E resources \in ResourcesInputs, dataset \in DatasetNames \cup {"x"},
          write \in BOOLEAN, db \in {"ok", "OperationalError"} :
        /\ req' = ProviderRequest("src/src", resources, dataset, write)
        /\ resp' = dataset_features_provider(resources, dataset, write, db, 0)
    /\ UNCHANGED <<config, filterVars, validateVars, table, sequence, store, slugs, log,
                   destroyed>>

\* a handler of src/data_service.py asks for the provider of a dataset
IndexDatasetFeaturesProvider ==
    /\ req = NoRequest
    /\ \E resources \in ResourcesInputs, dataset \in DatasetNames \cup {"x"},
          db \in {"ok", "OperationalError"} :
        /\ req' = ProviderRequest("src", resources, dataset, TRUE)
        /\ resp' = index_dataset_features_provider(resources, dataset, db, 0)
    /\ UNCHANGED <<config, filterVars, validateVars, table, sequence, store, slugs, log,
                   destroyed>>

KeyValRelNext == DatasetFeaturesProvider \/ IndexDatasetFeaturesProvider

KeyValRelSpec == KeyValRelInit /\ [][KeyValRelNext]_vars

\* the keyvalrel of the requested dataset cannot be resolved: it is
\* malformed, or its table is not configured or not permitted
Unresolvable(r) ==
    LET keyvalrel == r.resources[r.dataset].keyvalrel
    IN  \/ keyvalrel.parts # 3
        \/ keyvalrel.table \notin DOMAIN r.resources
        \/ ~r.resources[keyvalrel.table].permitted

\* C30: building a provider ends without an exception for every
\* configuration, cyclic keyvalrels included; the calls nest to a depth of
\* at most one; a keyvalrel that cannot be resolved yields an empty values
\* list
C30_KeyValRelTerminates ==
    req.op = "dataset_features_provider" =>
        /\ resp.raised = ""
        /\ resp.depth <= 1
        /\ (resp.provider /\ req.write /\ req.resources[req.dataset].keyvalrel # NoKeyValRel
            /\ Unresolvable(req)) => resp.values = Values(<<>>)

====
